---- MODULE Spec2Model ----
(***************************************************************************)
(* Model of the asynchronous orchestration of the multi-modal console:     *)
(*   - the live duplex session of LiveTalkView (connection lifecycle,      *)
(*     teardown, transcript assembly, playback scheduling, captures);      *)
(*   - the text streaming sessions of ChatView and ScriptGenieView.        *)
(* Text is a sequence of one-character strings, so that String.trim and    *)
(* concatenation are computed rather than assumed.                         *)
(***************************************************************************)
EXTENDS Integers, Sequences, FiniteSets, TLC

(***************************************************************************)
(* Bounds of the model.                                                    *)
(***************************************************************************)
MaxInputs == 4
MaxConnects == 3
MaxTalks == 2
MaxMsgs == 2
MaxAudioTalks == 1
MaxChunks == 3
MaxTextEvents == 5
MaxClock == 6
MaxJobs == 2
MaxPolls == 2
MaxGroundingChunks == 3
MaxSaves == 3
MaxConversations == 2
MaxChatEvents == 5
MaxReads == 2
MaxModeEvents == 4
MaxReadChunks == 2

NULL == 0

\* `.slice(0, 10)`: the number of entries a history keeps
HistoryCap == 10

(***************************************************************************)
(* Text helpers.                                                           *)
(***************************************************************************)
RECURSIVE TrimStart(_)
TrimStart(s) ==
  IF s = <<>> THEN s
  ELSE IF Head(s) = " " THEN TrimStart(Tail(s)) ELSE s

RECURSIVE TrimEnd(_)
TrimEnd(s) ==
  IF s = <<>> THEN s
  ELSE IF s[Len(s)] = " " THEN TrimEnd(SubSeq(s, 1, Len(s) - 1)) ELSE s

\* String.prototype.trim
Trim(s) == TrimEnd(TrimStart(s))

Max(a, b) == IF a >= b THEN a ELSE b

(***************************************************************************)
(* Inputs of the live session.                                             *)
(***************************************************************************)
\* text fragments a server message may carry (<<>>: the field is absent)
InputTexts == { <<>>, <<" ", "a">>, <<" ">> }
OutputTexts == { <<>>, <<"b", " ">> }
\* duration of the audio chunk of a message in clock units (0: no audio)
Durations == { 0, 4, 8 }
\* the playback-speed buttons 1.0x, 1.5x, 2.0x, in halves
PlaybackRates == { 2, 3, 4 }
\* the steps, in clock units, by which the playback clock is seen to advance
ClockSteps == { 2 }

ServerMessages ==
  [ inputTranscription : InputTexts,
    outputTranscription : OutputTexts,
    turnComplete : BOOLEAN,
    audio : Durations ]

VARIABLES
  live,      \* refs and React state of LiveTalkView
  env,       \* browser resources: open audio contexts, running captures, clock
  att,       \* the connection attempts made so far (one per startConversation)
  decoding,  \* onmessage continuations suspended in `await decodeAudioData`
  camReqs,   \* toggleCamera continuations suspended in `await getUserMedia`
  audioLog,  \* every source.start call so far, in call order
  counters,  \* number of server messages and camera requests so far
  threw,     \* the handler that ran last raised an error
  tab,       \* App: the active tab and the number of tab switches so far
  chat,      \* React state of ChatView
  chatRuns,  \* the handleSendMessage calls so far (streaming modes)
  timers,    \* the resends that handleRegenerate scheduled with setTimeout
  script,    \* React state of ScriptGenieView
  scriptRuns, \* the script generations and continuations so far
  video,     \* React state of VideoFactoryView
  vjob,      \* the handleSubmit call of VideoFactoryView in progress
  gw,        \* the gateway call made last: its circumstances and outcome
  trans,     \* React state of TranscribeView
  hist,      \* the capped histories: React state and localStorage copy
  convos,    \* the saved conversations of ChatView and their localStorage copy
  reading    \* ScriptGenieView read-aloud: React state, refs and the runs

liveVars == << live, env, att, decoding, camReqs, audioLog, counters, threw >>

textVars == << tab, chat, chatRuns, timers, script, scriptRuns >>

\* the variables of the remaining panels and of the gateway
videoVars == << video, vjob >>
gatewayVars == << gw, trans >>
historyVars == << hist >>
convoVars == << convos >>
readingVars == << reading >>
restVars == << videoVars, gatewayVars, historyVars, convoVars, readingVars >>
notLive == << textVars, restVars >>
notText == << liveVars, restVars >>

vars == << live, env, att, decoding, camReqs, audioLog, counters, threw,
           tab, chat, chatRuns, timers, script, scriptRuns, video, vjob,
           gw, trans, hist, convos, reading >>

World == [ live |-> live, env |-> env, att |-> att, threw |-> FALSE ]

(***************************************************************************)
(* Initial state: LiveTalkView as constructed (useState / useRef values).  *)
(***************************************************************************)
LiveInit ==
  /\ live = [ isConnected |-> FALSE,
              isConnecting |-> FALSE,
              transcriptions |-> <<>>,
              isCameraOn |-> FALSE,
              playbackRate |-> 2,
              sessionPromiseRef |-> NULL,
              inputAudioContextRef |-> NULL,
              outputAudioContextRef |-> NULL,
              mediaStreamRef |-> NULL,
              scriptProcessorRef |-> NULL,
              audioSourcesRef |-> {},
              videoStreamRef |-> NULL,
              frameIntervalRef |-> FALSE,
              currentInputTranscription |-> <<>>,
              currentOutputTranscription |-> <<>>,
              nextStartTimeRef |-> 0,
              mounted |-> TRUE ]
  /\ env = [ openInput |-> {}, openOutput |-> {}, micActive |-> {},
             camActive |-> {}, processors |-> {}, playing |-> {},
             clock |-> 0 ]
  /\ att = <<>>
  /\ decoding = {}
  /\ camReqs = {}
  /\ audioLog = <<>>
  /\ counters = [ msgs |-> 0, cams |-> 0, chunks |-> 0 ]
  /\ threw = FALSE

(***************************************************************************)
(* Teardown.                                                               *)
(***************************************************************************)
stopFrameStreaming(w) ==
  [w EXCEPT !.live.frameIntervalRef = FALSE]

\* cleanup closing the contexts without the `state !== 'closed'` test and
\* keeping the reference to the input context
cleanupUnguardedClose(w0) ==
  LET w == stopFrameStreaming(w0)
      l == w.live
      e == w.env
  IN [w EXCEPT
        !.threw = @ \/ (l.inputAudioContextRef # NULL
                        /\ l.inputAudioContextRef \notin e.openInput),
        !.env.processors = e.processors \ {l.scriptProcessorRef},
        !.env.micActive = e.micActive \ {l.mediaStreamRef},
        !.env.camActive = e.camActive \ {l.videoStreamRef},
        !.env.openInput = e.openInput \ {l.inputAudioContextRef},
        !.env.openOutput = e.openOutput \ {l.outputAudioContextRef},
        !.env.playing = e.playing \ l.audioSourcesRef,
        !.live.audioSourcesRef = {},
        !.live.scriptProcessorRef = NULL,
        !.live.mediaStreamRef = NULL,
        !.live.videoStreamRef = NULL,
        !.live.outputAudioContextRef = NULL]

cleanup(w0) ==
  LET w == stopFrameStreaming(w0)
      l == w.live
      e == w.env
  IN [w EXCEPT
        !.env.processors = e.processors \ {l.scriptProcessorRef},
        !.env.micActive = e.micActive \ {l.mediaStreamRef},
        !.env.camActive = e.camActive \ {l.videoStreamRef},
        !.env.openInput = e.openInput \ {l.inputAudioContextRef},
        !.env.openOutput = e.openOutput \ {l.outputAudioContextRef},
        !.env.playing = e.playing \ l.audioSourcesRef,
        !.live.audioSourcesRef = {},
        !.live.scriptProcessorRef = NULL,
        !.live.mediaStreamRef = NULL,
        !.live.videoStreamRef = NULL,
        !.live.inputAudioContextRef = NULL,
        !.live.outputAudioContextRef = NULL]

\* sessionPromiseRef.current?.then(session => session.close()): an open
\* session starts closing, a session still opening is closed once it opens
RequestClose(a, i) ==
  IF i = NULL THEN a
  ELSE IF a[i].phase = "open" THEN [a EXCEPT ![i].phase = "closing"]
  ELSE IF a[i].phase = "opening" THEN [a EXCEPT ![i].closeRequested = TRUE]
  ELSE a

stopConversation(w0) ==
  LET i == w0.live.sessionPromiseRef
      w1 == [w0 EXCEPT
               !.att = IF i = NULL THEN @
                       ELSE [RequestClose(@, i) EXCEPT ![i].cancelled = TRUE],
               !.live.sessionPromiseRef = NULL]
      w2 == cleanup(w1)
  IN [w2 EXCEPT !.live.isConnected = FALSE, !.live.isConnecting = FALSE]

\* the cleanup of the mount effect (dependency list []): it is the function
\* made by the first render, whose isConnected and isConnecting are the
\* initial values of the two states
LiveUnmount ==
  /\ live.mounted
  /\ LET isConnected == FALSE
         isConnecting == FALSE
         w == IF isConnected \/ isConnecting
              THEN stopConversation(World) ELSE cleanup(World)
     IN /\ live' = [stopFrameStreaming(w).live EXCEPT !.mounted = FALSE]
        /\ env' = w.env
        /\ att' = w.att
        /\ threw' = w.threw
  /\ UNCHANGED << decoding, camReqs, audioLog, counters >>

\* the effect on [isConnected, isCameraOn] that starts or stops frame streaming
FrameEffect(old, new) ==
  IF old.isConnected = new.isConnected /\ old.isCameraOn = new.isCameraOn
  THEN new
  ELSE [new EXCEPT !.frameIntervalRef = new.isConnected /\ new.isCameraOn]

Commit(w) ==
  /\ live' = FrameEffect(live, w.live)
  /\ env' = w.env
  /\ att' = w.att
  /\ threw' = w.threw

\* phase: where the attempt stands; closeRequested: session.close() is to run
\* once the session opens; cancelled: stopConversation ran for this session;
\* closedFrom: the phase in which the close event found the session
NewAttempt ==
  [ phase |-> "gum", closeRequested |-> FALSE, cancelled |-> FALSE,
    closedFrom |-> "none" ]

(***************************************************************************)
(* startConversation, up to its first suspension (await getUserMedia).     *)
(* The orb calls it only while neither connected nor connecting.           *)
(***************************************************************************)
StartConversation ==
  /\ ~live.isConnected /\ ~live.isConnecting
  /\ LET n == Len(att) + 1
     IN Commit([World EXCEPT
                  !.live.isConnecting = TRUE,
                  !.live.transcriptions = <<>>,
                  !.live.inputAudioContextRef = n,
                  !.live.outputAudioContextRef = n,
                  !.env.openInput = @ \cup {n},
                  !.env.openOutput = @ \cup {n},
                  !.env.clock = 0,
                  !.att = Append(@, NewAttempt)])
  /\ UNCHANGED << decoding, camReqs, audioLog, counters >>

\* getUserMedia resolved: the rest of the try block, ai.live.connect included
GumResolved(i) ==
  /\ att[i].phase = "gum"
  /\ Commit([World EXCEPT
               !.live.mediaStreamRef = i,
               !.live.sessionPromiseRef = i,
               !.env.micActive = @ \cup {i},
               !.att[i].phase = "opening"])
  /\ UNCHANGED << decoding, camReqs, audioLog, counters >>

\* getUserMedia rejected: the catch block of startConversation
GumRejected(i) ==
  /\ att[i].phase = "gum"
  /\ Commit([World EXCEPT
               !.live.isConnecting = FALSE,
               !.att[i].phase = "failed"])
  /\ UNCHANGED << decoding, camReqs, audioLog, counters >>

(***************************************************************************)
(* Callbacks of the session of attempt i.                                  *)
(***************************************************************************)
onopen(w, i) ==
  IF w.live.inputAudioContextRef = NULL
  THEN [w EXCEPT !.threw = TRUE]   \* inputAudioContextRef.current! is null
  ELSE [w EXCEPT
          !.live.scriptProcessorRef = i,
          !.env.processors = @ \cup {i},
          !.live.isConnecting = FALSE,
          !.live.isConnected = TRUE]

Open(i) ==
  /\ att[i].phase = "opening"
  /\ Commit([onopen(World, i) EXCEPT
               !.att[i].phase = IF att[i].closeRequested THEN "closing"
                                ELSE "open"])
  /\ UNCHANGED << decoding, camReqs, audioLog, counters >>

\* the connection fails: the browser fires the error event and the close
\* event of the socket in one task, so onerror and onclose run back to back
RemoteError(i) ==
  /\ att[i].phase \in {"opening", "open"}
  /\ Commit([stopConversation(stopConversation(World)) EXCEPT
               !.att[i].phase = "closed", !.att[i].cancelled = TRUE,
               !.att[i].closedFrom = "error"])
  /\ UNCHANGED << decoding, camReqs, audioLog, counters >>

\* onclose: the server closed the session, or the close event of a close
\* that stopConversation requested
RemoteClose(i) ==
  /\ att[i].phase \in {"open", "closing"}
  /\ Commit([stopConversation(World) EXCEPT
               !.att[i].phase = "closed", !.att[i].cancelled = TRUE,
               !.att[i].closedFrom = att[i].phase])
  /\ UNCHANGED << decoding, camReqs, audioLog, counters >>

\* the promise of ai.live.connect rejects: it is stored, not awaited, so the
\* catch of startConversation does not see the rejection and no callback runs
ConnectRejected(i) ==
  /\ att[i].phase = "opening"
  /\ att' = [att EXCEPT ![i].phase = "rejected"]
  /\ UNCHANGED << live, env, threw, decoding, camReqs, audioLog, counters >>

\* the orb while connected
UserStop ==
  /\ live.isConnected /\ ~live.isConnecting
  /\ Commit(stopConversation(World))
  /\ UNCHANGED << decoding, camReqs, audioLog, counters >>

\* the playback-speed buttons (enabled while connected)
SetPlaybackRate(r) ==
  /\ live.isConnected
  /\ r # live.playbackRate
  /\ Commit([World EXCEPT !.live.playbackRate = r])
  /\ UNCHANGED << decoding, camReqs, audioLog, counters >>

\* the playback clock (outputCtx.currentTime) of the referenced context
Tick(q) ==
  /\ live.outputAudioContextRef # NULL
  /\ env' = [env EXCEPT !.clock = @ + q]
  /\ threw' = FALSE
  /\ UNCHANGED << live, att, decoding, camReqs, audioLog, counters >>

(***************************************************************************)
(* onmessage, up to `await decodeAudioData`.                               *)
(***************************************************************************)
\* the transcript turns of one completed turn
Turns(userInput, modelOutput) ==
  (IF userInput # <<>> THEN << [speaker |-> "user", text |-> userInput] >>
   ELSE <<>>)
  \o
  (IF modelOutput # <<>> THEN << [speaker |-> "model", text |-> modelOutput] >>
   ELSE <<>>)

\* onmessageText resetting only the user-side accumulator
onmessageTextKeepsOutput(l, m) ==
  LET cin == l.currentInputTranscription \o m.inputTranscription
      cout == l.currentOutputTranscription \o m.outputTranscription
  IN IF m.turnComplete
     THEN [l EXCEPT
             !.transcriptions = @ \o Turns(Trim(cin), Trim(cout)),
             !.currentInputTranscription = <<>>,
             !.currentOutputTranscription = cout]
     ELSE [l EXCEPT
             !.currentInputTranscription = cin,
             !.currentOutputTranscription = cout]

\* lines 186-205: the two accumulators and the turn-completion signal
onmessageText(l, m) ==
  LET cin == l.currentInputTranscription \o m.inputTranscription
      cout == l.currentOutputTranscription \o m.outputTranscription
  IN IF m.turnComplete
     THEN [l EXCEPT
             !.transcriptions = @ \o Turns(Trim(cin), Trim(cout)),
             !.currentInputTranscription = <<>>,
             !.currentOutputTranscription = <<>>]
     ELSE [l EXCEPT
             !.currentInputTranscription = cin,
             !.currentOutputTranscription = cout]

\* lines 207-210: the cursor is clamped to the clock before the decode starts
onmessageAudio(w, m) ==
  IF m.audio = 0 THEN w
  ELSE IF w.live.outputAudioContextRef = NULL
  THEN [w EXCEPT !.threw = TRUE]   \* outputAudioContextRef.current! is null
  ELSE [w EXCEPT !.live.nextStartTimeRef = Max(@, w.env.clock)]

\* decodeAudioData of utils/helpers: an asynchronous conversion that
\* resolves, some time after the call, to a buffer lasting as long as the
\* audio of the message
decodeAudioData(m) == [ duration |-> m.audio ]

OnMessage(i, m) ==
  /\ att[i].phase \in {"open", "closing"}
  /\ LET w1 == [World EXCEPT !.live = onmessageText(@, m)]
         w2 == onmessageAudio(w1, m)
         id == counters.chunks + 1
     IN /\ Commit(w2)
        /\ IF m.audio # 0 /\ ~w2.threw
           THEN /\ decoding' = decoding \cup
                      {[ id |-> id, ctx |-> live.outputAudioContextRef,
                         duration |-> decodeAudioData(m).duration,
                         rx |-> env.clock ]}
                /\ counters' = [counters EXCEPT !.msgs = @ + 1, !.chunks = id]
           ELSE /\ decoding' = decoding
                /\ counters' = [counters EXCEPT !.msgs = @ + 1]
  /\ UNCHANGED << camReqs, audioLog >>

(***************************************************************************)
(* onmessage after `await decodeAudioData`: lines 212-219.  The decode of  *)
(* a chunk is an asynchronous operation; the decodes in flight complete in *)
(* any order and the clock may advance meanwhile.                          *)
(***************************************************************************)
PlayTime(duration, rate) == (duration * 2) \div rate

DecodeDone(d) ==
  /\ d \in decoding
  /\ decoding' = decoding \ {d}
  /\ audioLog' = Append(audioLog,
        [ id |-> d.id, ctx |-> d.ctx, rx |-> d.rx,
          start |-> live.nextStartTimeRef,
          play |-> PlayTime(d.duration, live.playbackRate),
          now |-> env.clock,
          current |-> (d.ctx = live.outputAudioContextRef) ])
  /\ Commit([World EXCEPT
               !.live.nextStartTimeRef =
                  @ + PlayTime(d.duration, live.playbackRate),
               !.live.audioSourcesRef = @ \cup {d.id},
               !.env.playing = IF d.ctx \in env.openOutput
                               THEN @ \cup {d.id} ELSE @])
  /\ UNCHANGED << camReqs, counters >>

\* the 'ended' listener of a source whose playback is over
SourceEnded(x) ==
  /\ x.id \in live.audioSourcesRef
  /\ x.id \in env.playing
  /\ x.ctx = live.outputAudioContextRef
  /\ env.clock >= Max(x.start, x.now) + x.play
  /\ Commit([World EXCEPT
               !.live.audioSourcesRef = @ \ {x.id},
               !.env.playing = @ \ {x.id}])
  /\ UNCHANGED << decoding, camReqs, audioLog, counters >>

(***************************************************************************)
(* toggleCamera (disabled while connecting).                               *)
(***************************************************************************)
ToggleCameraOff ==
  /\ ~live.isConnecting
  /\ live.isCameraOn /\ live.videoStreamRef # NULL
  /\ Commit([World EXCEPT
               !.env.camActive = @ \ {live.videoStreamRef},
               !.live.videoStreamRef = NULL,
               !.live.isCameraOn = FALSE])
  /\ UNCHANGED << decoding, camReqs, audioLog, counters >>

\* the else branch, up to `await getUserMedia({ video: true })`
ToggleCameraOn ==
  /\ ~live.isConnecting
  /\ ~(live.isCameraOn /\ live.videoStreamRef # NULL)
  /\ camReqs' = camReqs \cup {counters.cams + 1}
  /\ counters' = [counters EXCEPT !.cams = @ + 1]
  /\ threw' = FALSE
  /\ UNCHANGED << live, env, att, decoding, audioLog >>

CameraResolved(c) ==
  /\ c \in camReqs
  /\ camReqs' = camReqs \ {c}
  /\ Commit([World EXCEPT
               !.env.camActive = @ \cup {c},
               !.live.videoStreamRef = c,
               !.live.isCameraOn = TRUE])
  /\ UNCHANGED << decoding, audioLog, counters >>

\* the catch block: the alert, no state change
CameraRejected(c) ==
  /\ c \in camReqs
  /\ camReqs' = camReqs \ {c}
  /\ threw' = FALSE
  /\ UNCHANGED << live, env, att, decoding, audioLog, counters >>

(***************************************************************************)
(* The text streaming sessions of ChatView and ScriptGenieView.  App       *)
(* renders the view of the active tab only: switching tabs unmounts the    *)
(* view, whose state is lost, while the requests it started run on.        *)
(***************************************************************************)
\* one streamed chunk: `chunk.text` is a string, or undefined for a chunk
\* that carries no text
ChunkTexts == { <<"a">>, <<"b", "c">>, <<>> }
Chunks ==
  { [ hasText |-> TRUE, text |-> t ] : t \in ChunkTexts }
    \cup { [ hasText |-> FALSE, text |-> <<>> ] }
\* what `+=` appends for a chunk: its text, or the string 'undefined'
chunkText(chunk) ==
  IF chunk.hasText THEN chunk.text
  ELSE << "u", "n", "d", "e", "f", "i", "n", "e", "d" >>

\* buffer += chunk.text
appendChunkTextInFront(buffer, chunk) == chunkText(chunk) \o buffer

appendChunkText(buffer, chunk) == buffer \o chunkText(chunk)
\* the text a user sends, and what a user types into the script editor
UserText == <<"q">>
\* the values chosen in the chapters input
ChapterCounts == { 1, 2 }
EditTexts == { <<"e">> }
ScriptErrorText == <<"S">>      \* 'Sorry, an error occurred while ...'
ContinueErrorMarker == <<"E">>  \* '\n\n--- ERROR: Could not continue ... ---'

RECURSIVE Concat(_)
Concat(chunks) ==
  IF chunks = <<>> THEN <<>> ELSE Head(chunks) \o Concat(Tail(chunks))

ChatInitial ==
  [ messages |-> <<>>, isLoading |-> FALSE, error |-> FALSE, raced |-> FALSE,
    imagePreview |-> "", chatMode |-> "low-latency" ]

ScriptInitial ==
  [ generatedScript |-> <<>>, isLoading |-> FALSE, isEditing |-> FALSE,
    chapters |-> 1, lastGeneratedChapters |-> 1 ]

TextInit ==
  /\ tab = [ active |-> "chat", mount |-> 0 ]
  /\ chat = ChatInitial
  /\ chatRuns = <<>>
  /\ timers = {}
  /\ script = ScriptInitial
  /\ scriptRuns = <<>>

\* a state update of a run reaches the view only while the view that
\* started the run is still mounted
Attached(r) == r.mount = tab.mount

SwitchTab(t) ==
  /\ t # tab.active
  /\ tab' = [ active |-> t, mount |-> tab.mount + 1 ]
  /\ chat' = ChatInitial
  /\ script' = ScriptInitial
  /\ UNCHANGED << chatRuns, timers, scriptRuns >>

(***************************************************************************)
(* ChatView.                                                               *)
(***************************************************************************)
UserId(k) == 2 * k - 1
ModelId(k) == 2 * k

\* handleSendMessage(messageText, messageHistory) up to the first await on
\* the vendor (`await chat.sendMessageStream` in a streaming mode, `await
\* generateGroundedContent` in search-grounded mode); messages and chatMode
\* are the state the closure of the call holds.  The run records the history
\* handed to the vendor.
sendMessage(history, mnt, messages, chatMode) ==
  LET k == Len(chatRuns) + 1
      grounded == chatMode = "search-grounded"
      NotStreaming(m) == ~m.isStreaming
      userMessage == [ id |-> UserId(k), role |-> "user",
                       text |-> UserText, isStreaming |-> FALSE,
                       imagePreview |-> IF mnt = tab.mount
                                        THEN chat.imagePreview ELSE "" ]
      modelResponse == [ id |-> ModelId(k), role |-> "model",
                         text |-> <<>>, isStreaming |-> TRUE,
                         imagePreview |-> "" ]
      currentMessages == history \o << userMessage >>
  IN /\ chatRuns' = Append(chatRuns,
          [ mount |-> mnt, fullResponse |-> <<>>, delivered |-> <<>>,
            status |-> IF grounded THEN "awaiting" ELSE "streaming",
            chatMode |-> chatMode,
            history |-> SelectSeq(IF grounded THEN messages ELSE history,
                                  NotStreaming),
            currentMessages |-> IF grounded THEN currentMessages ELSE <<>> ])
     /\ chat' = IF mnt = tab.mount
                THEN [chat EXCEPT
                        !.isLoading = TRUE,
                        !.error = FALSE,
                        !.raced = @ \/ chat.isLoading,
                        !.imagePreview = "",
                        !.messages = IF grounded THEN currentMessages
                                     ELSE currentMessages \o << modelResponse >>]
                ELSE chat

\* the send button (disabled while loading)
ChatSend ==
  /\ tab.active = "chat"
  /\ ~chat.isLoading
  /\ sendMessage(chat.messages, tab.mount, chat.messages, chat.chatMode)
  /\ UNCHANGED << tab, timers, script, scriptRuns >>

\* the call of handleSendMessage is over: its locals are gone
settled(run, status) ==
  [run EXCEPT !.status = status, !.history = <<>>, !.currentMessages = <<>>]

\* for await (const chunk of stream): lines 197-205
ChatChunk(k, c) ==
  /\ chatRuns[k].status = "streaming"
  /\ LET fullResponse == appendChunkText(chatRuns[k].fullResponse, c)
         Apply(msg) == IF msg.id = ModelId(k)
                       THEN [msg EXCEPT !.text = fullResponse] ELSE msg
     IN /\ chatRuns' = [chatRuns EXCEPT
                          ![k].fullResponse = fullResponse,
                          ![k].delivered = Append(@, c)]
        /\ chat' = IF Attached(chatRuns[k])
                   THEN [chat EXCEPT !.messages = [ j \in DOMAIN @ |-> Apply(@[j]) ]]
                   ELSE chat
  /\ UNCHANGED << tab, timers, script, scriptRuns >>

\* the stream ends: lines 207-211 and the finally block
ChatStreamEnd(k) ==
  /\ chatRuns[k].status = "streaming"
  /\ LET Final(msg) == IF msg.id = ModelId(k)
                       THEN [msg EXCEPT !.isStreaming = FALSE] ELSE msg
     IN chat' = IF Attached(chatRuns[k])
                THEN [chat EXCEPT !.messages = [ j \in DOMAIN @ |-> Final(@[j]) ],
                                  !.isLoading = FALSE]
                ELSE chat
  /\ chatRuns' = [chatRuns EXCEPT ![k] = settled(@, "completed")]
  /\ UNCHANGED << tab, timers, script, scriptRuns >>

\* the request or the stream fails: the catch and the finally block
ChatStreamError(k) ==
  /\ chatRuns[k].status = "streaming"
  /\ LET Keep(msg) == msg.id # UserId(k) /\ msg.id # ModelId(k)
     IN chat' = IF Attached(chatRuns[k])
                THEN [chat EXCEPT !.messages = SelectSeq(@, Keep),
                                  !.error = TRUE,
                                  !.isLoading = FALSE]
                ELSE chat
  /\ chatRuns' = [chatRuns EXCEPT ![k] = settled(@, "errored")]
  /\ UNCHANGED << tab, timers, script, scriptRuns >>

LastUserIndex(msgs) ==
  IF \E j \in DOMAIN msgs : msgs[j].role = "user"
  THEN CHOOSE j \in DOMAIN msgs :
         /\ msgs[j].role = "user"
         /\ \A h \in DOMAIN msgs : msgs[h].role = "user" => h <= j
  ELSE 0

\* handleRegenerate: the button of the last message, a finished model answer
ChatRegenerate ==
  /\ tab.active = "chat"
  /\ ~chat.isLoading
  /\ chat.messages # <<>>
  /\ LET last == chat.messages[Len(chat.messages)]
     IN last.role = "model" /\ ~last.isStreaming /\ last.text # <<>>
  /\ LET idx == LastUserIndex(chat.messages)
         historyUpToLastUserMessage == SubSeq(chat.messages, 1, idx - 1)
     IN /\ idx # 0
        /\ chat' = [chat EXCEPT !.messages = historyUpToLastUserMessage]
        /\ timers' = timers \cup
             {[ history |-> historyUpToLastUserMessage, mount |-> tab.mount,
                messages |-> chat.messages, chatMode |-> chat.chatMode ]}
  /\ UNCHANGED << tab, chatRuns, script, scriptRuns >>

\* the setTimeout callback of handleRegenerate
ChatResend(t) ==
  /\ t \in timers
  /\ timers' = timers \ {t}
  /\ sendMessage(t.history, t.mount, t.messages, t.chatMode)
  /\ UNCHANGED << tab, script, scriptRuns >>

\* handleNewChat (disabled while loading)
ChatNewChat ==
  /\ tab.active = "chat"
  /\ ~chat.isLoading
  /\ chat.messages # <<>> \/ chat.error \/ chat.imagePreview # ""
  /\ chat' = [chat EXCEPT !.messages = <<>>, !.error = FALSE,
                          !.imagePreview = ""]
  /\ UNCHANGED << tab, chatRuns, timers, script, scriptRuns >>

\* generateGroundedContent resolves for run k: lines 152-158 and the finally
GroundedResolved(k) ==
  /\ chatRuns[k].status = "awaiting"
  /\ LET modelResponse == [ id |-> ModelId(k), role |-> "model",
                            text |-> << "a" >>, isStreaming |-> FALSE,
                            imagePreview |-> "" ]
     IN chat' = IF Attached(chatRuns[k])
                THEN [chat EXCEPT
                        !.messages =
                           chatRuns[k].currentMessages \o << modelResponse >>,
                        !.isLoading = FALSE]
                ELSE chat
  /\ chatRuns' = [chatRuns EXCEPT
                     ![k] = settled([@ EXCEPT !.fullResponse = << "a" >>],
                                    "completed")]
  /\ UNCHANGED << tab, timers, script, scriptRuns >>

\* generateGroundedContent rejects for run k: lines 159-165
GroundedRejected(k) ==
  /\ chatRuns[k].status = "awaiting"
  /\ LET Keep(msg) == msg.id # UserId(k)
     IN chat' = IF Attached(chatRuns[k])
                THEN [chat EXCEPT !.messages = SelectSeq(@, Keep),
                                  !.error = TRUE,
                                  !.isLoading = FALSE]
                ELSE chat
  /\ chatRuns' = [chatRuns EXCEPT ![k] = settled(@, "errored")]
  /\ UNCHANGED << tab, timers, script, scriptRuns >>

\* handleModeChange (the selector is disabled while loading; the user
\* confirms the dialog)
ChatModeChange(newMode) ==
  /\ tab.active = "chat"
  /\ ~chat.isLoading
  /\ newMode # chat.chatMode
  /\ chat' = [chat EXCEPT !.chatMode = newMode, !.messages = <<>>,
                          !.error = FALSE, !.imagePreview = ""]
  /\ UNCHANGED << tab, chatRuns, timers, script, scriptRuns >>

(***************************************************************************)
(* ScriptGenieView.                                                        *)
(***************************************************************************)
\* the Generate / Continue button is disabled while loading or editing and
\* when nothing is left to generate
SubmitEnabled ==
  /\ ~script.isLoading /\ ~script.isEditing
  /\ ~(script.chapters <= script.lastGeneratedChapters
       /\ Trim(script.generatedScript) # <<>>)

IsContinuation ==
  /\ Trim(script.generatedScript) # <<>>
  /\ script.chapters > script.lastGeneratedChapters

NewScriptRun(kind, initialScript) ==
  [ kind |-> kind, initialScript |-> initialScript, content |-> <<>>,
    delivered |-> <<>>, chapters |-> script.chapters, mount |-> tab.mount,
    status |-> "streaming" ]

\* handleSubmit, fresh generation, up to `await generateScriptStream`
ScriptGenerate ==
  /\ tab.active = "script"
  /\ SubmitEnabled /\ ~IsContinuation
  /\ script' = [script EXCEPT
                  !.isLoading = TRUE,
                  !.generatedScript = <<>>,
                  !.isEditing = FALSE,
                  !.lastGeneratedChapters = 1]
  /\ scriptRuns' = Append(scriptRuns, NewScriptRun("generate", <<>>))
  /\ UNCHANGED << tab, chat, chatRuns, timers >>

\* handleSubmit -> handleContinueScript, up to `await continueScriptStream`
ScriptContinue ==
  /\ tab.active = "script"
  /\ SubmitEnabled /\ IsContinuation
  /\ script' = [script EXCEPT !.isLoading = TRUE]
  /\ scriptRuns' =
       Append(scriptRuns, NewScriptRun("continue", script.generatedScript))
  /\ UNCHANGED << tab, chat, chatRuns, timers >>

\* for await (const chunk of stream): lines 1097-1101 and 1056-1060
ScriptChunk(k, c) ==
  /\ scriptRuns[k].status = "streaming"
  /\ LET content == appendChunkText(scriptRuns[k].content, c)
     IN /\ scriptRuns' = [scriptRuns EXCEPT
                            ![k].content = content,
                            ![k].delivered = Append(@, c)]
        /\ script' = IF Attached(scriptRuns[k])
                     THEN [script EXCEPT !.generatedScript =
                             scriptRuns[k].initialScript \o content]
                     ELSE script
  /\ UNCHANGED << tab, chat, chatRuns, timers >>

\* the stream ends: lines 1103-1106 / 1062-1066 and the finally block
ScriptStreamEnd(k) ==
  /\ scriptRuns[k].status = "streaming"
  /\ script' = IF Attached(scriptRuns[k])
               THEN [script EXCEPT
                       !.lastGeneratedChapters =
                          IF Trim(scriptRuns[k].content) # <<>>
                          THEN scriptRuns[k].chapters ELSE @,
                       !.isLoading = FALSE]
               ELSE script
  /\ scriptRuns' = [scriptRuns EXCEPT ![k].status = "completed"]
  /\ UNCHANGED << tab, chat, chatRuns, timers >>

\* the request or the stream fails: the catch and the finally block
ScriptStreamError(k) ==
  /\ scriptRuns[k].status = "streaming"
  /\ script' = IF Attached(scriptRuns[k])
               THEN [script EXCEPT
                       !.generatedScript =
                          IF scriptRuns[k].kind = "generate"
                          THEN ScriptErrorText
                          ELSE @ \o ContinueErrorMarker,
                       !.isLoading = FALSE]
               ELSE script
  /\ scriptRuns' = [scriptRuns EXCEPT ![k].status = "errored"]
  /\ UNCHANGED << tab, chat, chatRuns, timers >>

\* the chapters input (disabled while loading or editing)
ScriptSetChapters(n) ==
  /\ tab.active = "script"
  /\ ~script.isLoading /\ ~script.isEditing
  /\ n # script.chapters
  /\ script' = [script EXCEPT !.chapters = n]
  /\ UNCHANGED << tab, chat, chatRuns, timers, scriptRuns >>

\* handleToggleEditing: the Edit / Save button of a displayed script
ScriptToggleEditing ==
  /\ tab.active = "script"
  /\ script.generatedScript # <<>>
  /\ script' = [script EXCEPT !.isEditing = ~@]
  /\ UNCHANGED << tab, chat, chatRuns, timers, scriptRuns >>

\* the textarea of the editor
ScriptEdit(text) ==
  /\ tab.active = "script"
  /\ script.isEditing
  /\ script.generatedScript # text
  /\ script' = [script EXCEPT !.generatedScript = text]
  /\ UNCHANGED << tab, chat, chatRuns, timers, scriptRuns >>

\* handleStartNew (shown in continuation mode)
ScriptStartNew ==
  /\ tab.active = "script"
  /\ ~script.isLoading /\ IsContinuation
  /\ script' = [script EXCEPT
                  !.generatedScript = <<>>,
                  !.lastGeneratedChapters = 1,
                  !.isEditing = FALSE]
  /\ UNCHANGED << tab, chat, chatRuns, timers, scriptRuns >>

(***************************************************************************)
(* Errors of the vendor and of the gateway.  A message is a sequence of    *)
(* words, so that String.includes and toLowerCase are computed.            *)
(***************************************************************************)
\* status 0: the error carries no status
VendorErrors ==
  { [ message |-> << "API", "key", "not", "valid" >>, status |-> 400 ],
    [ message |-> << "permission", "denied" >>, status |-> 403 ],
    [ message |-> << "Quota", "exceeded" >>, status |-> 429 ],
    [ message |-> << "quota", "exceeded" >>, status |-> 0 ],
    [ message |-> << "prompt", "was", "blocked" >>, status |-> 400 ],
    [ message |-> << "safety", "policy" >>, status |-> 0 ],
    [ message |-> << "internal", "error" >>, status |-> 500 ],
    [ message |-> << "fetch", "failed" >>, status |-> 0 ] }

\* String.prototype.includes
includes(message, phrase) ==
  \E i \in 1..(Len(message) - Len(phrase) + 1) :
     SubSeq(message, i, i + Len(phrase) - 1) = phrase

\* String.prototype.toLowerCase
toLowerCase(message) ==
  [ i \in DOMAIN message |->
      CASE message[i] = "API" -> "api"
        [] message[i] = "Quota" -> "quota"
        [] message[i] = "Failed" -> "failed"
        [] OTHER -> message[i] ]

\* new ApiKeyError('API key is invalid or has insufficient permissions.')
ApiKeyError ==
  [ name |-> "ApiKeyError", status |-> 0,
    message |-> << "API", "key", "is", "invalid", "or", "has",
                   "insufficient", "permissions." >> ]

\* no error was raised
NoError == [ name |-> "none", status |-> 0, message |-> << >> ]

\* the error as the vendor library raises it
Upstream(e) == [ name |-> "Error", status |-> e.status, message |-> e.message ]

\* handleApiError: the error that leaves the gateway
handleApiError(error) ==
  IF \/ includes(error.message, << "API", "key" >>)
     \/ includes(error.message, << "permission", "denied" >>)
     \/ includes(error.message, << "was", "not", "found" >>)
     \/ (error.status # 0 /\ error.status >= 400 /\ error.status < 500)
  THEN ApiKeyError
  ELSE error

(***************************************************************************)
(* VideoFactoryView: submit, the wait loop of pollOperation, download.     *)
(***************************************************************************)
\* a job handle as the vendor returns it (uri: it carries a result reference)
ProgressValues == { 0, 30, 60 }
Operations ==
  [ done : BOOLEAN, progressPercent : ProgressValues, uri : BOOLEAN ]

EmptyResultText == "not-available"
CredentialText == "api-key"
SafetyText == "safety"
QuotaText == "quota"
GenericText == "unexpected"

VideoInit ==
  /\ video = [ isLoading |-> FALSE, progress |-> 0, videoUrl |-> NULL,
               error |-> "none", apiKeyStatus |-> "valid",
               videoHistory |-> <<>> ]
  /\ vjob = [ id |-> 0, phase |-> "idle", operation |-> NULL,
              waits |-> 0, polls |-> 0, raised |-> "none", shown |-> NULL,
              vendor |-> NoError ]

\* handleSubmit up to `await generateVideo` (shown: the video on display when
\* the handler was called; vendor: the error as the vendor raised it, once a
\* call of the gateway has failed)
VideoSubmit ==
  /\ ~video.isLoading /\ video.apiKeyStatus = "valid"
  /\ video' = [video EXCEPT !.isLoading = TRUE, !.videoUrl = NULL,
                            !.error = "none", !.progress = 0]
  /\ vjob' = [ id |-> vjob.id + 1, phase |-> "submitting",
               operation |-> NULL, waits |-> 0, polls |-> 0,
               raised |-> "none", shown |-> video.videoUrl,
               vendor |-> NoError ]

\* the catch and the finally of handleSubmit
classify(v, err) ==
  LET errorMessage == toLowerCase(err.message)
  IN IF \/ includes(errorMessage, << "api", "key" >>)
        \/ includes(errorMessage, << "billing" >>)
        \/ includes(errorMessage, << "permission", "denied" >>)
        \/ includes(errorMessage, << "was", "not", "found" >>)
     THEN [v EXCEPT !.apiKeyStatus = "invalid", !.error = CredentialText,
                    !.isLoading = FALSE]
     ELSE IF \/ includes(errorMessage, << "prompt", "was", "blocked" >>)
             \/ includes(errorMessage, << "safety", "policy" >>)
     THEN [v EXCEPT !.error = SafetyText, !.isLoading = FALSE]
     ELSE IF \/ includes(errorMessage, << "quota" >>)
             \/ includes(errorMessage, << "rate", "limit" >>)
     THEN [v EXCEPT !.error = QuotaText, !.isLoading = FALSE]
     ELSE [v EXCEPT !.error = GenericText, !.isLoading = FALSE]

\* the done handle without a result reference taken for a failure
emptyResultAsFailure(v) ==
  classify(v, [ name |-> "Error", status |-> 0,
                message |-> << "no", "video" >> ])

\* handleSubmit, lines 153-155 and the finally: the job is done and carries
\* no download link
emptyResult(v) == [v EXCEPT !.error = EmptyResultText, !.isLoading = FALSE]

\* the exit test of the wait loop that ignores the done flag of the handle
loopHeadKeepsPolling(v, j, operation) ==
  << v, [j EXCEPT !.operation = operation, !.phase = "waiting"] >>

\* pollOperation: `while (!currentOperation.done)`, and what follows the loop
\* in pollOperation and in handleSubmit up to the next await
loopHead(v, j, operation) ==
  IF ~operation.done
  THEN << v, [j EXCEPT !.operation = operation, !.phase = "waiting"] >>
  ELSE IF operation.uri
  THEN << [v EXCEPT !.progress = 100],
          [j EXCEPT !.operation = operation, !.phase = "fetching"] >>
  ELSE << emptyResult([v EXCEPT !.progress = 100]),
          [j EXCEPT !.operation = operation, !.phase = "finished"] >>

\* generateVideo resolves with the initial handle
GenerateResolved(operation) ==
  /\ vjob.phase = "submitting"
  /\ LET r == loopHead(video, vjob, operation)
     IN video' = r[1] /\ vjob' = r[2]

\* generateVideo rejects
GenerateRejected(e) ==
  /\ vjob.phase = "submitting"
  /\ LET err == handleApiError(Upstream(e))
     IN /\ video' = classify(video, err)
        /\ vjob' = [vjob EXCEPT !.phase = "failed", !.raised = err.name,
                                !.vendor = Upstream(e)]

\* the fixed wait is over: checkVideoOperation is called
WaitElapsed ==
  /\ vjob.phase = "waiting"
  /\ vjob' = [vjob EXCEPT !.phase = "polling", !.waits = @ + 1,
                          !.polls = @ + 1]
  /\ UNCHANGED video

\* the progress the panel reports after a poll: lines 97-99
reportProgress(v, operation) ==
  IF operation.progressPercent # 0
  THEN [v EXCEPT !.progress = operation.progressPercent]
  ELSE v

\* checkVideoOperation resolves with the next handle
PollResolved(operation) ==
  /\ vjob.phase = "polling"
  /\ LET r == loopHead(reportProgress(video, operation), vjob, operation)
     IN video' = r[1] /\ vjob' = r[2]

\* checkVideoOperation rejects: pollOperation rethrows to handleSubmit
PollRejected(e) ==
  /\ vjob.phase = "polling"
  /\ LET err == handleApiError(Upstream(e))
     IN /\ video' = classify(video, err)
        /\ vjob' = [vjob EXCEPT !.phase = "failed", !.raised = err.name,
                                !.vendor = Upstream(e)]

\* fetch of the download link resolves; a response that is not ok is thrown
\* as Error('Failed to fetch video data. Status: ...')
FetchResolved(ok) ==
  /\ vjob.phase = "fetching"
  /\ IF ok
     THEN /\ video' = [video EXCEPT !.videoUrl = vjob.id]
          /\ vjob' = [vjob EXCEPT !.phase = "thumbnail"]
     ELSE /\ video' = classify(video,
                 [ name |-> "Error", status |-> 0,
                   message |-> << "Failed", "to", "fetch", "video", "data" >> ])
          /\ vjob' = [vjob EXCEPT !.phase = "failed", !.raised = "Error"]

\* fetch rejects (network failure)
FetchRejected(e) ==
  /\ vjob.phase = "fetching"
  /\ video' = classify(video, Upstream(e))
  /\ vjob' = [vjob EXCEPT !.phase = "failed", !.raised = "Error",
                          !.vendor = Upstream(e)]

\* generateVideoThumbnail settles: the history entry is added on success
ThumbnailSettled(ok) ==
  /\ vjob.phase = "thumbnail"
  /\ video' = [video EXCEPT
                 !.videoHistory =
                    IF ok THEN SubSeq(<< vjob.id >> \o @, 1,
                                      IF Len(@) + 1 < 5 THEN Len(@) + 1 ELSE 5)
                    ELSE @,
                 !.isLoading = FALSE]
  /\ vjob' = [vjob EXCEPT !.phase = "finished"]

\* handleSelectKey (the key screen shown while the key is marked invalid)
SelectKey ==
  /\ video.apiKeyStatus = "invalid"
  /\ video' = [video EXCEPT !.apiKeyStatus = "valid", !.error = "none"]
  /\ UNCHANGED vjob

(***************************************************************************)
(* geminiService: the gateway functions, each computed from the            *)
(* circumstances of one call (credential configured, vendor reply).        *)
(***************************************************************************)
\* getGenAI: new ApiKeyError('API key is missing.')
MissingKey ==
  [ name |-> "ApiKeyError", status |-> 0,
    message |-> << "API", "key", "is", "missing." >> ]

\* the error JSON.parse raises on a text that is not JSON
SyntaxError ==
  [ name |-> "SyntaxError", status |-> 0,
    message |-> << "Unexpected", "token" >> ]

\* response.text as the vendor may return it, one word per element
ResponseTexts == { << >>, << "hello" >>, << "[", "idea", "]" >> }

\* a grounding chunk: whether it has a `web` part, and that part's fields
\* (title "": the chunk carries no title)
Uris == { "a", "b" }
Titles == { "", "T1" }
GroundingChunks ==
  { [ web |-> FALSE, uri |-> "a", title |-> "" ] }
    \cup [ web : { TRUE }, uri : Uris, title : Titles ]

ChunkLists ==
  UNION { [ 1..n -> GroundingChunks ] : n \in 0..MaxGroundingChunks }

\* what the vendor does with one request
Rejections ==
  { [ rejects |-> TRUE, error |-> e, text |-> << >>, audio |-> FALSE,
      chunks |-> << >> ] : e \in VendorErrors }
TextReplies ==
  { [ rejects |-> FALSE, error |-> [ message |-> << >>, status |-> 0 ],
      text |-> t, audio |-> a, chunks |-> << >> ] :
      t \in ResponseTexts, a \in BOOLEAN }
GroundedReplies ==
  { [ rejects |-> FALSE, error |-> [ message |-> << >>, status |-> 0 ],
      text |-> << "hello" >>, audio |-> FALSE, chunks |-> c ] :
      c \in ChunkLists }

\* the values a gateway function returns
String(text) == [ type |-> "string", items |-> text, sources |-> << >> ]
Array(items) == [ type |-> "array", items |-> items, sources |-> << >> ]
Null == [ type |-> "null", items |-> << >>, sources |-> << >> ]
Undefined == [ type |-> "undefined", items |-> << >>, sources |-> << >> ]
Grounded(text, sources) ==
  [ type |-> "object", items |-> text, sources |-> sources ]

Returned(value) == [ threw |-> FALSE, error |-> NoError, value |-> value ]
Thrown(error) == [ threw |-> TRUE, error |-> error, value |-> Undefined ]

\* the error raised inside the try block of a function that calls getGenAI
raisedWithGetGenAI(apiKey, reply) ==
  IF ~apiKey THEN MissingKey
  ELSE IF reply.rejects THEN Upstream(reply.error)
  ELSE NoError

\* the same for a function that constructs GoogleGenAI itself
raisedWithoutGetGenAI(reply) ==
  IF reply.rejects THEN Upstream(reply.error) ELSE NoError

\* `catch (error) { handleApiError(error); throw error; }`
catchAndThrow(error) == Thrown(handleApiError(error))

\* `catch (error) { handleApiError(error); return fallback; }`: handleApiError
\* raises on every path, so the return statement is never reached
catchAndReturn(error, fallback) == Thrown(handleApiError(error))

generateText(apiKey, reply) ==
  LET error == raisedWithGetGenAI(apiKey, reply)
  IN  IF error = NoError THEN Returned(String(reply.text))
      ELSE catchAndThrow(error)

generateVideo(reply) ==
  LET error == raisedWithoutGetGenAI(reply)
  IN  IF error = NoError THEN Returned(String(reply.text))
      ELSE catchAndThrow(error)

transcribeAudio(apiKey, reply) ==
  LET error == raisedWithGetGenAI(apiKey, reply)
  IN  IF error = NoError THEN Returned(String(reply.text))
      ELSE catchAndReturn(error, String(<< >>))

\* JSON.parse of a text: an array literal parses to its elements
IsJsonArray(text) ==
  Len(text) >= 2 /\ text[1] = "[" /\ text[Len(text)] = "]"
JSONparse(text) == SubSeq(text, 2, Len(text) - 1)

suggestPrompts(apiKey, reply) ==
  LET error == raisedWithGetGenAI(apiKey, reply)
  IN  IF error # NoError THEN catchAndReturn(error, Array(<< >>))
      ELSE IF ~IsJsonArray(reply.text)
           THEN catchAndReturn(SyntaxError, Array(<< >>))
      ELSE Returned(Array(JSONparse(reply.text)))

generateTts(apiKey, reply) ==
  LET error == raisedWithGetGenAI(apiKey, reply)
  IN  IF error # NoError THEN catchAndReturn(error, Null)
      ELSE IF reply.audio THEN Returned(String(<< "audio" >>))
      ELSE Returned(Null)

\* Array.prototype.findIndex(s => s.uri === uri), 0 when there is none
findIndex(self, uri) ==
  IF \E i \in DOMAIN self : self[i].uri = uri
  THEN CHOOSE i \in DOMAIN self :
         /\ self[i].uri = uri
         /\ \A j \in 1..(i - 1) : self[j].uri # uri
  ELSE 0

\* the elements of self at the indices of keep, in the order of self
RECURSIVE filterByIndex(_, _, _)
filterByIndex(self, keep, i) ==
  IF i > Len(self) THEN << >>
  ELSE (IF i \in keep THEN << self[i] >> ELSE << >>)
         \o filterByIndex(self, keep, i + 1)

\* .map(chunk => chunk.web).filter(Boolean)
\* .map(webChunk => ({ uri, title: webChunk.title || webChunk.uri }))
webSources(chunks) ==
  LET webs == SelectSeq(chunks, LAMBDA c : c.web)
  IN  [ i \in DOMAIN webs |->
          [ uri |-> webs[i].uri,
            title |-> IF webs[i].title # "" THEN webs[i].title
                      ELSE webs[i].uri ] ]

groundingSourcesKeepLast(chunks) ==
  LET self == webSources(chunks)
  IN  filterByIndex(self,
        { i \in DOMAIN self :
            \A j \in (i + 1)..Len(self) : self[j].uri # self[i].uri }, 1)

\* .filter((source, index, self) =>
\*    index === self.findIndex(s => s.uri === source.uri))
groundingSources(chunks) ==
  LET self == webSources(chunks)
  IN  filterByIndex(self,
        { i \in DOMAIN self : i = findIndex(self, self[i].uri) }, 1)

generateGroundedContent(apiKey, reply) ==
  LET error == raisedWithGetGenAI(apiKey, reply)
  IN  IF error = NoError
      THEN Returned(Grounded(reply.text, groundingSources(reply.chunks)))
      ELSE catchAndThrow(error)

\* the functions that answer with a text, and their outcome for one call
TextFunctions ==
  { "generateText", "generateVideo", "transcribeAudio", "suggestPrompts",
    "generateTts" }

callOutcome(fn, apiKey, reply) ==
  CASE fn = "generateText" -> generateText(apiKey, reply)
    [] fn = "generateVideo" -> generateVideo(reply)
    [] fn = "transcribeAudio" -> transcribeAudio(apiKey, reply)
    [] fn = "suggestPrompts" -> suggestPrompts(apiKey, reply)
    [] fn = "generateTts" -> generateTts(apiKey, reply)
    [] fn = "generateGroundedContent" -> generateGroundedContent(apiKey, reply)

\* the record of one call: the error raised inside it (NoError: none)
callRecord(fn, apiKey, reply) ==
  [ fn |-> fn, apiKey |-> apiKey,
    cause |-> IF reply.rejects THEN Upstream(reply.error) ELSE NoError,
    text |-> reply.text, chunks |-> reply.chunks,
    outcome |-> callOutcome(fn, apiKey, reply) ]

\* "Sorry, an error occurred during transcription."
SorryText ==
  << "Sorry,", "an", "error", "occurred", "during", "transcription." >>

\* TranscribeView as mounted (settled: how the last transcription ended)
TranscribeMounted ==
  [ audioBlob |-> FALSE, isRecording |-> FALSE, isLoading |-> FALSE,
    transcription |-> << >>, settled |-> "none" ]

GatewayInit ==
  /\ gw = [ fn |-> "none", apiKey |-> TRUE, cause |-> NoError,
            text |-> << >>, chunks |-> << >>, outcome |-> Returned(Undefined) ]
  /\ trans = TranscribeMounted

\* a panel awaits one of the text functions
GatewayCall(fn, apiKey, reply) ==
  /\ fn # "transcribeAudio"
  \* without a credential the vendor library cannot be answered
  /\ (fn = "generateVideo" /\ ~apiKey) => reply.rejects
  /\ gw' = callRecord(fn, apiKey, reply)
  /\ UNCHANGED trans

\* ChatView awaits generateGroundedContent (App renders one panel at a time:
\* the Transcribe panel is not in use)
GroundedCall(apiKey, reply) ==
  /\ trans = TranscribeMounted
  /\ gw' = callRecord("generateGroundedContent", apiKey, reply)
  /\ UNCHANGED trans

\* App switches away from the Transcribe tab and back: its state is discarded
TranscribeRemount ==
  /\ trans # TranscribeMounted
  /\ trans' = TranscribeMounted
  /\ UNCHANGED gw

\* TranscribeView.toggleRecording
ToggleRecording ==
  /\ ~trans.isLoading
  /\ trans' = IF trans.isRecording
              THEN [trans EXCEPT !.isRecording = FALSE]
              ELSE [trans EXCEPT !.isRecording = TRUE, !.transcription = << >>,
                                 !.audioBlob = FALSE, !.settled = "none"]
  /\ UNCHANGED gw

\* the recorder delivers the blob: the effect runs handleTranscription up to
\* `await transcribeAudio(audioFile)`
HandleTranscription ==
  /\ ~trans.isRecording /\ ~trans.audioBlob /\ ~trans.isLoading
  /\ trans' = [trans EXCEPT !.audioBlob = TRUE, !.isLoading = TRUE,
                            !.transcription = << >>, !.settled = "none"]
  /\ UNCHANGED gw

\* handleTranscription from the await on: try, catch and finally
TranscriptionSettled(apiKey, reply) ==
  /\ trans.isLoading
  /\ LET call == callRecord("transcribeAudio", apiKey, reply)
     IN  /\ gw' = call
         /\ trans' =
              [trans EXCEPT
                 !.transcription = IF call.outcome.threw THEN SorryText
                                   ELSE call.outcome.value.items,
                 !.settled = IF call.cause # NoError \/ ~apiKey
                             THEN "failed" ELSE "ok",
                 !.isLoading = FALSE]

(***************************************************************************)
(* The capped histories: script versions (ScriptGenieView), generated      *)
(* images and analyses (ImageGenieView), each with its localStorage copy.  *)
(***************************************************************************)
Histories == { "script", "image", "analysis" }

\* the lengths of the history found in localStorage when the panel mounts
StoredLengths == { 0, 9, 10 }

\* a stored history of n entries, newest first, entries named by their age
StoredHistory(n) == [ i \in 1..n |-> n + 1 - i ]

\* `[newEntry, ...prev].slice(0, 10)`
prepend(newEntry, prev) ==
  LET all == << newEntry >> \o prev
  IN  SubSeq(all, 1, IF Len(all) < HistoryCap THEN Len(all) ELSE HistoryCap)

HistoryInit ==
  hist = [ k \in Histories |->
             [ mounted |-> FALSE, memory |-> << >>, stored |-> << >>,
               nextId |-> 1, pending |-> FALSE, captured |-> << >> ] ]

\* the saves made so far, over all histories
Saves == hist["script"].nextId + hist["image"].nextId
           + hist["analysis"].nextId - 3

\* the panel mounts and its effect loads the stored history
\* (JSON.parse(localStorage.getItem(key)))
HistoryMount(k, n) ==
  /\ ~hist[k].mounted
  /\ hist' = [hist EXCEPT ![k] =
                [ mounted |-> TRUE, memory |-> StoredHistory(n),
                  stored |-> StoredHistory(n), nextId |-> n + 1,
                  pending |-> FALSE, captured |-> << >> ]]

\* saveScriptToHistory with a key and a script: the updater of setHistory;
\* written: localStorage.setItem succeeded (its failure is caught and logged)
saveScriptToHistory(written) ==
  /\ hist["script"].mounted
  /\ LET h == hist["script"]
         updatedHistory == prepend(h.nextId, h.memory)
     IN  hist' = [hist EXCEPT !["script"] =
                   [h EXCEPT !.memory = updatedHistory,
                             !.stored = IF written THEN updatedHistory ELSE @,
                             !.nextId = @ + 1]]

\* ImageGenieView.handleSubmit up to the await: the handler keeps the history
\* of the render it was created in
ImageSubmit(k) ==
  /\ k \in { "image", "analysis" }
  /\ hist[k].mounted /\ ~hist[k].pending
  /\ hist' = [hist EXCEPT ![k].pending = TRUE, ![k].captured = hist[k].memory]

\* the request resolves: updateHistory([newEntry, ...history].slice(0, 10));
\* setHistory runs before localStorage.setItem, whose failure is caught by
\* the catch of handleSubmit
ImageResolved(k, written) ==
  /\ hist[k].pending
  /\ LET h == hist[k]
         newHistory == prepend(h.nextId, h.captured)
     IN  hist' = [hist EXCEPT ![k] =
                   [h EXCEPT !.memory = newHistory,
                             !.stored = IF written THEN newHistory ELSE @,
                             !.nextId = @ + 1, !.pending = FALSE]]

\* the request rejects: catch and finally of handleSubmit
ImageRejected(k) ==
  /\ hist[k].pending
  /\ hist' = [hist EXCEPT ![k].pending = FALSE]

\* handleClearHistory / handleClearAnalysisHistory, confirmed by the user
ClearHistory(k) ==
  /\ k \in { "image", "analysis" }
  /\ hist[k].mounted /\ hist[k].memory # << >>
  /\ hist' = [hist EXCEPT ![k].memory = << >>, ![k].stored = << >>]

(***************************************************************************)
(* ChatView: the saved conversations.                                      *)
(***************************************************************************)
ConversationNames == { "n1", "n2" }

\* JSON.stringify of a message: a property whose value is undefined (no
\* image attached) is left out
stringifyMessage(m) ==
  IF m.imagePreview = ""
  THEN [ id |-> m.id, role |-> m.role, text |-> m.text,
         isStreaming |-> m.isStreaming ]
  ELSE [ id |-> m.id, role |-> m.role, text |-> m.text,
         isStreaming |-> m.isStreaming, imagePreview |-> m.imagePreview ]

\* JSON.parse of a message: a property that is not there reads as undefined
parseMessage(j) ==
  [ id |-> j.id, role |-> j.role, text |-> j.text,
    isStreaming |-> j.isStreaming,
    imagePreview |-> IF "imagePreview" \in DOMAIN j THEN j.imagePreview
                     ELSE "" ]

\* JSON.stringify(updatedHistory)
stringify(conversations) ==
  [ i \in DOMAIN conversations |->
      [ id |-> conversations[i].id, name |-> conversations[i].name,
        messages |-> [ h \in DOMAIN conversations[i].messages |->
                         stringifyMessage(conversations[i].messages[h]) ] ] ]

\* JSON.parse(storedHistory)
parse(json) ==
  [ i \in DOMAIN json |->
      [ id |-> json[i].id, name |-> json[i].name,
        messages |-> [ h \in DOMAIN json[i].messages |->
                         parseMessage(json[i].messages[h]) ] ] ]

\* saved: savedConversations; stored: the item of localStorage; now: the
\* clock read by Date.now(); archive: the message list each save put away;
\* ops: the saves, renames and deletes so far
ConversationsInit ==
  convos = [ saved |-> << >>, stored |-> << >>, now |-> 1,
             archive |-> << >>, ops |-> 0 ]

\* handleFileChange: an image is attached to the message being written
AttachImage ==
  /\ tab.active = "chat" /\ ~chat.isLoading
  /\ chat.imagePreview = ""
  /\ chat' = [chat EXCEPT !.imagePreview = "img"]
  /\ UNCHANGED << tab, chatRuns, timers, script, scriptRuns, convos >>

\* updateStoredHistory: setSavedConversations, then localStorage.setItem
\* (written: it did not raise)
updateStoredHistory(updatedHistory, written) ==
  [convos EXCEPT !.saved = updatedHistory,
                 !.stored = IF written THEN stringify(updatedHistory) ELSE @,
                 !.ops = @ + 1]

\* handleSaveConversation (the history dialog opens while nothing loads)
SaveConversation(name, written) ==
  /\ tab.active = "chat" /\ ~chat.isLoading
  /\ chat.messages # << >>
  /\ LET newConversation ==
           [ id |-> convos.now, name |-> name,
             messages |-> SelectSeq(chat.messages,
                                    LAMBDA m : ~m.isStreaming) ]
     IN  convos' =
           [updateStoredHistory(<< newConversation >> \o convos.saved, written)
              EXCEPT !.now = @ + 1,
                     !.archive = Append(@, newConversation.messages)]
  /\ UNCHANGED textVars

\* savedConversations.find(c => c.id === id): its index, 0 when there is none
findConversationFirst(saved, id) == IF saved = << >> THEN 0 ELSE 1

findConversation(saved, id) ==
  IF \E i \in DOMAIN saved : saved[i].id = id
  THEN CHOOSE i \in DOMAIN saved :
         /\ saved[i].id = id
         /\ \A j \in 1..(i - 1) : saved[j].id # id
  ELSE 0

\* handleLoadConversation
LoadConversation(id) ==
  /\ tab.active = "chat" /\ ~chat.isLoading
  /\ \E i \in DOMAIN convos.saved : convos.saved[i].id = id
  /\ LET i == findConversation(convos.saved, id)
     IN  /\ i # 0
         /\ chat' = [chat EXCEPT !.messages = convos.saved[i].messages]
  /\ UNCHANGED << tab, chatRuns, timers, script, scriptRuns, convos >>

\* handleRenameConversation
RenameConversation(id, newName, written) ==
  /\ tab.active = "chat" /\ ~chat.isLoading
  /\ \E i \in DOMAIN convos.saved :
        convos.saved[i].id = id /\ convos.saved[i].name # newName
  /\ LET updated == [ i \in DOMAIN convos.saved |->
                        IF convos.saved[i].id = id
                        THEN [convos.saved[i] EXCEPT !.name = newName]
                        ELSE convos.saved[i] ]
     IN  convos' = updateStoredHistory(updated, written)
  /\ UNCHANGED textVars

\* handleDeleteConversation
DeleteConversation(id, written) ==
  /\ tab.active = "chat" /\ ~chat.isLoading
  /\ \E i \in DOMAIN convos.saved : convos.saved[i].id = id
  /\ LET updated == SelectSeq(convos.saved, LAMBDA c : c.id # id)
     IN  convos' = updateStoredHistory(updated, written)
  /\ UNCHANGED textVars

\* App shows another tab and then the chat again: ChatView is constructed
\* anew and its mount effect reads the stored conversations
ChatRemount ==
  /\ tab.active = "chat"
  /\ tab' = [tab EXCEPT !.mount = @ + 2]
  /\ chat' = ChatInitial
  /\ script' = ScriptInitial
  /\ convos' = [convos EXCEPT !.saved = parse(convos.stored)]
  /\ UNCHANGED << chatRuns, timers, scriptRuns >>

(***************************************************************************)
(* Read aloud (ScriptGenieView): one run of handleToggleReading per start, *)
(* suspended at `await generateTts`, at `await decodeAudioData` or in the  *)
(* completion timer.  An audio context is named by the run that made it.   *)
(* `cancelled` records that stopReading ran while the run was under way.   *)
(***************************************************************************)
ReadingInit ==
  reading = [ readingState |-> "idle", isStoppingRef |-> FALSE,
              audioContextRef |-> NULL, closed |-> {},
              audioSourcesRef |-> <<>>, runs |-> <<>> ]

stopReading(r) ==
  [ r EXCEPT !.isStoppingRef = TRUE,
             !.audioSourcesRef = <<>>,
             !.closed = IF r.audioContextRef # NULL
                        THEN @ \cup { r.audioContextRef } ELSE @,
             !.audioContextRef = NULL,
             !.readingState = "idle",
             !.runs = [ k \in DOMAIN @ |->
                          IF @[k].phase # "done"
                          THEN [ @[k] EXCEPT !.cancelled = TRUE ] ELSE @[k] ] ]

\* run k has finished the body of the loop for one chunk: the next chunk is
\* requested unless isStoppingRef is set; after the last chunk the completion
\* timer is armed unless isStoppingRef is set
nextChunk(r, k) ==
  [ r EXCEPT !.runs[k].left = @ - 1,
             !.runs[k].phase =
                IF r.isStoppingRef THEN "done"
                ELSE IF r.runs[k].left > 1 THEN "tts" ELSE "timer" ]

\* the read-aloud button; n is the number of chunks chunkText makes of the
\* script shown
ToggleReading(n) ==
  IF reading.readingState \in { "playing", "loading" }
  THEN reading' = stopReading(reading)
  ELSE LET ctx == IF reading.audioContextRef = NULL
                  THEN Len(reading.runs) + 1 ELSE reading.audioContextRef
       IN reading' =
            [ reading EXCEPT
                !.readingState = "loading",
                !.isStoppingRef = FALSE,
                !.audioContextRef = ctx,
                !.runs = Append(@, [ phase |-> "tts", audioCtx |-> ctx,
                                     left |-> n, isFirstChunk |-> TRUE,
                                     cancelled |-> FALSE, scheduled |-> 0 ]) ]

\* generateTts resolves for run k, with audio or with nothing
TtsResolved(k, audioBase64) ==
  /\ reading.runs[k].phase = "tts"
  /\ reading' = IF audioBase64 /\ ~reading.isStoppingRef
                THEN [ reading EXCEPT !.runs[k].phase = "decode" ]
                ELSE nextChunk(reading, k)

\* generateTts rejects for run k: the catch calls stopReading
TtsRejected(k) ==
  /\ reading.runs[k].phase = "tts"
  /\ reading' = stopReading([ reading EXCEPT !.runs[k].phase = "done" ])

\* decodeAudioData resolves for run k: the chunk is scheduled on the context
\* the run captured
ReadDecoded(k) ==
  /\ reading.runs[k].phase = "decode"
  /\ reading' =
       IF reading.isStoppingRef
       THEN [ reading EXCEPT !.runs[k].phase = "done" ]
       ELSE nextChunk(
              [ reading EXCEPT
                  !.readingState = IF reading.runs[k].isFirstChunk
                                   THEN "playing" ELSE @,
                  !.runs[k].isFirstChunk = FALSE,
                  !.runs[k].scheduled = @ + 1,
                  !.audioSourcesRef =
                     Append(@, [ run |-> k,
                                 audioCtx |-> reading.runs[k].audioCtx ]) ],
              k)

\* the completion timer of run k fires
ReadTimer(k) ==
  /\ reading.runs[k].phase = "timer"
  /\ reading' = [ reading EXCEPT
                    !.runs[k].phase = "done",
                    !.readingState = IF reading.isStoppingRef THEN @
                                     ELSE "idle" ]

(***************************************************************************)
(* The two text panels.                                                    *)
(***************************************************************************)
\* the chunks delivered so far, over all streams
RECURSIVE DeliveredIn(_)
DeliveredIn(runs) ==
  IF runs = <<>> THEN 0
  ELSE Len(Head(runs).delivered) + DeliveredIn(Tail(runs))

Delivered == DeliveredIn(chatRuns) + DeliveredIn(scriptRuns)
\* the streams started so far
Runs == Len(chatRuns) + Len(scriptRuns)
\* the tab switches, streams and chunks so far
TextEvents == tab.mount + Runs + Delivered

TextNext ==
  \/ TextEvents < MaxTextEvents /\ \E t \in {"chat", "script"} : SwitchTab(t) /\ UNCHANGED notText
  \/ TextEvents < MaxTextEvents /\ ChatSend /\ UNCHANGED notText
  \/ TextEvents < MaxTextEvents /\ \E k \in DOMAIN chatRuns :
        \E c \in Chunks : ChatChunk(k, c) /\ UNCHANGED notText
  \/ \E k \in DOMAIN chatRuns : ChatStreamEnd(k) /\ UNCHANGED notText
  \/ \E k \in DOMAIN chatRuns : ChatStreamError(k) /\ UNCHANGED notText
  \/ ChatRegenerate /\ UNCHANGED notText
  \/ TextEvents < MaxTextEvents /\ \E t \in timers : ChatResend(t) /\ UNCHANGED notText
  \/ ChatNewChat /\ UNCHANGED notText
  \/ TextEvents < MaxTextEvents /\ ScriptGenerate /\ UNCHANGED notText
  \/ TextEvents < MaxTextEvents /\ ScriptContinue /\ UNCHANGED notText
  \/ TextEvents < MaxTextEvents /\ \E k \in DOMAIN scriptRuns :
        \E c \in Chunks : ScriptChunk(k, c) /\ UNCHANGED notText
  \/ \E k \in DOMAIN scriptRuns : ScriptStreamEnd(k) /\ UNCHANGED notText
  \/ \E k \in DOMAIN scriptRuns : ScriptStreamError(k) /\ UNCHANGED notText
  \/ \E n \in ChapterCounts : ScriptSetChapters(n) /\ UNCHANGED notText
  \/ ScriptToggleEditing /\ UNCHANGED notText
  \/ \E text \in EditTexts : ScriptEdit(text) /\ UNCHANGED notText
  \/ ScriptStartNew /\ UNCHANGED notText

(***************************************************************************)
(* The live panel: connection lifecycle, teardown and captures, with the   *)
(* server messages that probe a session (one completed turn, one audio     *)
(* chunk).                                                                 *)
(***************************************************************************)
ProbeMessages ==
  { [ inputTranscription |-> <<" ", "a">>, outputTranscription |-> <<>>,
      turnComplete |-> TRUE, audio |-> 0 ],
    [ inputTranscription |-> <<" ", "a">>, outputTranscription |-> <<>>,
      turnComplete |-> FALSE, audio |-> 4 ] }

\* the connection attempts, server messages and camera requests so far
Inputs == Len(att) + counters.msgs + counters.cams

LiveNext ==
  \/ Inputs < MaxInputs /\ StartConversation /\ UNCHANGED notLive
  \/ \E i \in DOMAIN att : GumResolved(i) /\ UNCHANGED notLive
  \/ \E i \in DOMAIN att : GumRejected(i) /\ UNCHANGED notLive
  \/ \E i \in DOMAIN att : Open(i) /\ UNCHANGED notLive
  \/ \E i \in DOMAIN att : RemoteError(i) /\ UNCHANGED notLive
  \/ \E i \in DOMAIN att : RemoteClose(i) /\ UNCHANGED notLive
  \/ UserStop /\ UNCHANGED notLive
  \/ Inputs < MaxInputs /\ \E i \in DOMAIN att :
        \E m \in ProbeMessages : OnMessage(i, m) /\ UNCHANGED notLive
  \/ \E d \in decoding : DecodeDone(d) /\ UNCHANGED notLive
  \/ ToggleCameraOff /\ UNCHANGED notLive
  \/ Inputs < MaxInputs /\ ToggleCameraOn /\ UNCHANGED notLive
  \/ \E c \in camReqs : CameraResolved(c) /\ UNCHANGED notLive
  \/ \E c \in camReqs : CameraRejected(c) /\ UNCHANGED notLive

Init == LiveInit /\ TextInit /\ VideoInit /\ GatewayInit /\ HistoryInit
        /\ ConversationsInit /\ ReadingInit

Spec == Init /\ [][LiveNext]_vars

(***************************************************************************)
(* The connection lifecycle alone, over more connection attempts.          *)
(***************************************************************************)
LifecycleNext ==
  \/ Len(att) < MaxConnects /\ StartConversation /\ UNCHANGED notLive
  \/ \E i \in DOMAIN att : GumResolved(i) /\ UNCHANGED notLive
  \/ \E i \in DOMAIN att : GumRejected(i) /\ UNCHANGED notLive
  \/ \E i \in DOMAIN att : Open(i) /\ UNCHANGED notLive
  \/ \E i \in DOMAIN att : RemoteError(i) /\ UNCHANGED notLive
  \/ \E i \in DOMAIN att : RemoteClose(i) /\ UNCHANGED notLive
  \/ UserStop /\ UNCHANGED notLive

SpecLifecycle == Init /\ [][LifecycleNext]_vars

(***************************************************************************)
(* Transcript assembly: every combination of transcription text and        *)
(* turn-completion signal, across a stop and a second conversation.        *)
(***************************************************************************)
TextMessages == { m \in ServerMessages : m.audio = 0 }

TalkNext ==
  \/ Len(att) < MaxTalks /\ StartConversation /\ UNCHANGED notLive
  \/ \E i \in DOMAIN att : GumResolved(i) /\ UNCHANGED notLive
  \/ \E i \in DOMAIN att : Open(i) /\ UNCHANGED notLive
  \/ \E i \in DOMAIN att : RemoteClose(i) /\ UNCHANGED notLive
  \/ UserStop /\ UNCHANGED notLive
  \/ counters.msgs < MaxMsgs /\ \E i \in DOMAIN att :
        \E m \in TextMessages : OnMessage(i, m) /\ UNCHANGED notLive

SpecTalk == Init /\ [][TalkNext]_vars

(***************************************************************************)
(* Playback scheduling: the audio chunks of one conversation, the playback *)
(* clock, the playback rate and the decodes in flight.                     *)
(***************************************************************************)
AudioMessages ==
  { m \in ServerMessages : /\ m.audio # 0
                           /\ m.inputTranscription = <<>>
                           /\ m.outputTranscription = <<>>
                           /\ ~m.turnComplete }

AudioNext ==
  \/ Len(att) < MaxAudioTalks /\ StartConversation /\ UNCHANGED notLive
  \/ \E i \in DOMAIN att : GumResolved(i) /\ UNCHANGED notLive
  \/ \E i \in DOMAIN att : Open(i) /\ UNCHANGED notLive
  \/ UserStop /\ UNCHANGED notLive
  \/ \E r \in PlaybackRates : SetPlaybackRate(r) /\ UNCHANGED notLive
  \/ \E q \in ClockSteps :
        env.clock + q <= MaxClock /\ Tick(q) /\ UNCHANGED notLive
  \/ counters.msgs < MaxChunks /\ \E i \in DOMAIN att :
        \E m \in AudioMessages : OnMessage(i, m) /\ UNCHANGED notLive
  \/ \E d \in decoding : DecodeDone(d) /\ UNCHANGED notLive
  \/ \E k \in DOMAIN audioLog : SourceEnded(audioLog[k]) /\ UNCHANGED notLive

SpecAudio == Init /\ [][AudioNext]_vars

SpecText == Init /\ [][TextNext]_vars

(***************************************************************************)
(* The video panel.                                                        *)
(***************************************************************************)
notVideo == << liveVars, textVars, gatewayVars, historyVars, convoVars,
              readingVars >>

VideoNext ==
  \/ vjob.id < MaxJobs /\ VideoSubmit /\ UNCHANGED notVideo
  \/ \E o \in Operations : GenerateResolved(o) /\ UNCHANGED notVideo
  \/ \E e \in VendorErrors : GenerateRejected(e) /\ UNCHANGED notVideo
  \/ vjob.polls < MaxPolls /\ WaitElapsed /\ UNCHANGED notVideo
  \/ \E o \in Operations : PollResolved(o) /\ UNCHANGED notVideo
  \/ \E e \in VendorErrors : PollRejected(e) /\ UNCHANGED notVideo
  \/ \E ok \in BOOLEAN : FetchResolved(ok) /\ UNCHANGED notVideo
  \/ \E e \in VendorErrors : FetchRejected(e) /\ UNCHANGED notVideo
  \/ \E ok \in BOOLEAN : ThumbnailSettled(ok) /\ UNCHANGED notVideo
  \/ SelectKey /\ UNCHANGED notVideo

SpecVideo == Init /\ [][VideoNext]_vars

(***************************************************************************)
(* The gateway and the Transcribe panel.                                   *)
(***************************************************************************)
notGateway == << liveVars, textVars, videoVars, historyVars, convoVars,
                readingVars >>

GatewayNext ==
  \/ \E fn \in TextFunctions, apiKey \in BOOLEAN :
        \E reply \in Rejections \cup TextReplies :
           GatewayCall(fn, apiKey, reply) /\ UNCHANGED notGateway
  \/ \E apiKey \in BOOLEAN : \E reply \in Rejections \cup GroundedReplies :
        GroundedCall(apiKey, reply) /\ UNCHANGED notGateway
  \/ TranscribeRemount /\ UNCHANGED notGateway
  \/ ToggleRecording /\ UNCHANGED notGateway
  \/ HandleTranscription /\ UNCHANGED notGateway
  \/ \E apiKey \in BOOLEAN : \E reply \in Rejections \cup TextReplies :
        TranscriptionSettled(apiKey, reply) /\ UNCHANGED notGateway

SpecGateway == Init /\ [][GatewayNext]_vars

(***************************************************************************)
(* The capped histories.                                                   *)
(***************************************************************************)
notHistory == << liveVars, textVars, videoVars, gatewayVars, convoVars,
                readingVars >>

HistoryNext ==
  \/ \E k \in Histories, n \in StoredLengths :
        HistoryMount(k, n) /\ UNCHANGED notHistory
  \/ Saves < MaxSaves /\ \E written \in BOOLEAN :
        saveScriptToHistory(written) /\ UNCHANGED notHistory
  \/ Saves < MaxSaves /\ \E k \in Histories :
        ImageSubmit(k) /\ UNCHANGED notHistory
  \/ \E k \in Histories, written \in BOOLEAN :
        ImageResolved(k, written) /\ UNCHANGED notHistory
  \/ \E k \in Histories : ImageRejected(k) /\ UNCHANGED notHistory
  \/ \E k \in Histories : ClearHistory(k) /\ UNCHANGED notHistory

SpecHistory == Init /\ [][HistoryNext]_vars

(***************************************************************************)
(* ChatView with its saved conversations.                                  *)
(***************************************************************************)
notChat == << liveVars, videoVars, gatewayVars, historyVars, readingVars >>

\* the chunks of the answers that fill the chats to be saved
AnswerChunks == { [ hasText |-> TRUE, text |-> << "a" >> ] }

\* the remounts, sends, chunks, saves, renames and deletes so far
ChatEvents == TextEvents + convos.ops

ConversationsNext ==
  \/ ChatEvents < MaxChatEvents /\ ChatRemount /\ UNCHANGED notChat
  \/ AttachImage /\ UNCHANGED notChat
  \/ ChatEvents < MaxChatEvents /\ ChatSend /\ UNCHANGED << notChat, convos >>
  \/ ChatEvents < MaxChatEvents /\ \E k \in DOMAIN chatRuns :
        \E c \in AnswerChunks :
           ChatChunk(k, c) /\ UNCHANGED << notChat, convos >>
  \/ \E k \in DOMAIN chatRuns :
        ChatStreamEnd(k) /\ UNCHANGED << notChat, convos >>
  \/ \E k \in DOMAIN chatRuns :
        ChatStreamError(k) /\ UNCHANGED << notChat, convos >>
  \/ ChatNewChat /\ UNCHANGED << notChat, convos >>
  \/ convos.now <= MaxConversations /\ ChatEvents < MaxChatEvents /\
        \E name \in ConversationNames, written \in BOOLEAN :
           SaveConversation(name, written) /\ UNCHANGED notChat
  \/ \E id \in 1..MaxConversations : LoadConversation(id) /\ UNCHANGED notChat
  \/ ChatEvents < MaxChatEvents /\
        \E id \in 1..MaxConversations, newName \in ConversationNames,
           written \in BOOLEAN :
           RenameConversation(id, newName, written) /\ UNCHANGED notChat
  \/ ChatEvents < MaxChatEvents /\
        \E id \in 1..MaxConversations, written \in BOOLEAN :
           DeleteConversation(id, written) /\ UNCHANGED notChat

SpecConversations == Init /\ [][ConversationsNext]_vars

(***************************************************************************)
(* The live panel while a session is set up: every request the panel has   *)
(* made of the browser or of the vendor is answered in the end.            *)
(***************************************************************************)
SetupNext ==
  \/ Len(att) < MaxConnects /\ StartConversation /\ UNCHANGED notLive
  \/ \E i \in DOMAIN att : GumResolved(i) /\ UNCHANGED notLive
  \/ \E i \in DOMAIN att : GumRejected(i) /\ UNCHANGED notLive
  \/ \E i \in DOMAIN att : Open(i) /\ UNCHANGED notLive
  \/ \E i \in DOMAIN att : ConnectRejected(i) /\ UNCHANGED notLive
  \/ \E i \in DOMAIN att : RemoteError(i) /\ UNCHANGED notLive
  \/ \E i \in DOMAIN att : RemoteClose(i) /\ UNCHANGED notLive
  \/ UserStop /\ UNCHANGED notLive

\* getUserMedia settles
GumSettles(i) ==
  i \in DOMAIN att /\ (GumResolved(i) \/ GumRejected(i)) /\ UNCHANGED notLive

\* the connection opens, is rejected, or fails; a closing session closes
ConnectionSettles(i) ==
  /\ i \in DOMAIN att
  /\ Open(i) \/ ConnectRejected(i) \/ RemoteError(i) \/ RemoteClose(i)
  /\ UNCHANGED notLive

SpecSetup ==
  /\ Init /\ [][SetupNext]_vars
  /\ \A i \in 1..MaxConnects :
        WF_vars(GumSettles(i)) /\ WF_vars(ConnectionSettles(i))

(***************************************************************************)
(* The live panel until the user leaves it and after: the callbacks of a   *)
(* session go on arriving at the instance that was unmounted.              *)
(***************************************************************************)
UnmountNext ==
  \/ /\ live.mounted /\ Inputs < MaxInputs
     /\ StartConversation /\ UNCHANGED notLive
  \/ \E i \in DOMAIN att : GumResolved(i) /\ UNCHANGED notLive
  \/ \E i \in DOMAIN att : Open(i) /\ UNCHANGED notLive
  \/ \E i \in DOMAIN att : RemoteClose(i) /\ UNCHANGED notLive
  \/ live.mounted /\ UserStop /\ UNCHANGED notLive
  \/ Inputs < MaxInputs /\ \E i \in DOMAIN att :
        \E m \in ProbeMessages : OnMessage(i, m) /\ UNCHANGED notLive
  \/ \E d \in decoding : DecodeDone(d) /\ UNCHANGED notLive
  \/ LiveUnmount /\ UNCHANGED notLive

SpecUnmount == Init /\ [][UnmountNext]_vars

(***************************************************************************)
(* The chat panel with its modes.                                          *)
(***************************************************************************)
ChatNext ==
  \/ \E m \in { "low-latency", "search-grounded" } :
        ChatModeChange(m) /\ UNCHANGED notText
  \/ TextEvents < MaxModeEvents /\ ChatSend /\ UNCHANGED notText
  \/ TextEvents < MaxModeEvents /\ \E k \in DOMAIN chatRuns :
        \E c \in AnswerChunks : ChatChunk(k, c) /\ UNCHANGED notText
  \/ \E k \in DOMAIN chatRuns : ChatStreamEnd(k) /\ UNCHANGED notText
  \/ \E k \in DOMAIN chatRuns : ChatStreamError(k) /\ UNCHANGED notText
  \/ \E k \in DOMAIN chatRuns : GroundedResolved(k) /\ UNCHANGED notText
  \/ \E k \in DOMAIN chatRuns : GroundedRejected(k) /\ UNCHANGED notText
  \/ ChatRegenerate /\ UNCHANGED notText
  \/ TextEvents < MaxModeEvents /\ \E t \in timers :
        ChatResend(t) /\ UNCHANGED notText
  \/ ChatNewChat /\ UNCHANGED notText

SpecChat == Init /\ [][ChatNext]_vars

(***************************************************************************)
(* Read aloud alone.                                                       *)
(***************************************************************************)
notReading == << liveVars, textVars, videoVars, gatewayVars, historyVars,
                 convoVars >>

ReadingNext ==
  \/ /\ Len(reading.runs) < MaxReads
        \/ reading.readingState \in { "playing", "loading" }
     /\ \E n \in 1..MaxReadChunks : ToggleReading(n)
     /\ UNCHANGED notReading
  \/ \E k \in DOMAIN reading.runs : \E audioBase64 \in BOOLEAN :
        TtsResolved(k, audioBase64) /\ UNCHANGED notReading
  \/ \E k \in DOMAIN reading.runs : TtsRejected(k) /\ UNCHANGED notReading
  \/ \E k \in DOMAIN reading.runs : ReadDecoded(k) /\ UNCHANGED notReading
  \/ \E k \in DOMAIN reading.runs : ReadTimer(k) /\ UNCHANGED notReading

SpecReading == Init /\ [][ReadingNext]_vars

(***************************************************************************)
(* Properties of the live session.                                         *)
(***************************************************************************)

\* C3: once stopConversation has run for a session, a server message that
\* the transport still delivers for it changes neither the transcript nor
\* the two accumulators, schedules no audio and raises no error.
C3_CancelledSessionDiscardsMessages ==
  [][ \A i \in DOMAIN att : \A m \in ServerMessages :
        (att[i].cancelled /\ OnMessage(i, m)) =>
          /\ live'.transcriptions = live.transcriptions
          /\ live'.currentInputTranscription = live.currentInputTranscription
          /\ live'.currentOutputTranscription = live.currentOutputTranscription
          /\ live'.nextStartTimeRef = live.nextStartTimeRef
          /\ decoding' = decoding
          /\ ~threw' ]_vars

\* consecutive chunks of one conversation, the later one received before the
\* earlier one finishes playing
Consecutive(x, y) ==
  /\ x.ctx = y.ctx /\ x.current /\ y.current
  /\ y.id = x.id + 1
  /\ y.rx <= x.start + x.play

\* C4: audio chunks received in the order c1, c2, ... are started in that
\* order, each at the start of its predecessor plus the predecessor's
\* playback duration (no overlap, no gap), whatever the order in which
\* their decodes complete.
C4_GaplessInDeliveryOrder ==
  \A j, k \in DOMAIN audioLog :
    Consecutive(audioLog[j], audioLog[k]) =>
      /\ j < k
      /\ audioLog[k].start = audioLog[j].start + audioLog[j].play

\* C5: a buffer is never started at a time earlier than the playback
\* clock's time at the moment of the source.start call.
C5_StartNotBeforeClock ==
  \A k \in DOMAIN audioLog :
    audioLog[k].current => audioLog[k].start >= audioLog[k].now

\* C6: a connect that follows a teardown starts from a clean state: nothing
\* of the previous session is held or open, both accumulators are empty and
\* the playback cursor is not ahead of the new playback clock.
C6_ConnectStartsClean ==
  [][ ((\E i \in DOMAIN att : att[i].cancelled) /\ StartConversation) =>
        LET n == Len(att') IN
        /\ live'.currentInputTranscription = <<>>
        /\ live'.currentOutputTranscription = <<>>
        /\ live'.nextStartTimeRef <= env'.clock
        /\ live'.audioSourcesRef = {}
        /\ live'.mediaStreamRef = NULL
        /\ live'.scriptProcessorRef = NULL
        /\ env'.micActive = {}
        /\ env'.processors = {}
        /\ env'.playing = {}
        /\ env'.openInput = {n}
        /\ env'.openOutput = {n} ]_vars

ConnectionState(l) ==
  IF l.isConnecting THEN "connecting"
  ELSE IF l.isConnected THEN "connected" ELSE "disconnected"

\* C8: isConnecting and isConnected are never both true, and the connection
\* state changes only along disconnected -> connecting -> connected ->
\* disconnected and connecting -> disconnected.
C8_ConnectionLifecycle ==
  [][ /\ ~(live'.isConnected /\ live'.isConnecting)
      /\ << ConnectionState(live), ConnectionState(live') >> \in
           { << "disconnected", "disconnected" >>,
             << "connecting", "connecting" >>,
             << "connected", "connected" >>,
             << "disconnected", "connecting" >>,
             << "connecting", "connected" >>,
             << "connecting", "disconnected" >>,
             << "connected", "disconnected" >> } ]_vars

\* C9: at most one running microphone capture, one open input context, one
\* open output context and one running camera capture, each of them held in
\* its ref.
C9_SingleCaptures ==
  /\ Cardinality(env.micActive) <= 1
  /\ Cardinality(env.openInput) <= 1
  /\ Cardinality(env.openOutput) <= 1
  /\ Cardinality(env.camActive) <= 1
  /\ env.micActive \subseteq {live.mediaStreamRef}
  /\ env.openInput \subseteq {live.inputAudioContextRef}
  /\ env.openOutput \subseteq {live.outputAudioContextRef}
  /\ env.camActive \subseteq {live.videoStreamRef}

TornDown(w) ==
  /\ ~w.live.isConnected /\ ~w.live.isConnecting
  /\ w.live.sessionPromiseRef = NULL
  /\ w.live.inputAudioContextRef = NULL
  /\ w.live.outputAudioContextRef = NULL
  /\ w.live.mediaStreamRef = NULL
  /\ w.live.videoStreamRef = NULL
  /\ w.live.scriptProcessorRef = NULL
  /\ w.live.audioSourcesRef = {}
  /\ ~w.live.frameIntervalRef

\* C7: teardown is idempotent.  In every reachable state, cleanup and
\* stopConversation raise no error, running either a second time changes
\* nothing any more, and when the session is already torn down they leave
\* every piece of state as it is.
C7_TeardownIdempotent ==
  LET s == stopConversation(World)
      c == cleanup(World)
  IN /\ ~s.threw /\ ~c.threw
     /\ stopConversation(s) = s
     /\ cleanup(s) = s
     /\ cleanup(c) = c
     /\ TornDown(World) => (s = World /\ c = World)

\* an explicit stop (or an error) followed by the close callback, with no
\* new connect in between: the second teardown found the session torn down
C7_Witness ==
  /\ Len(att) = 1
  /\ att[1].phase = "closed" /\ att[1].closedFrom \in {"closing", "error"}
  /\ TornDown(World)
  /\ env.openInput = {} /\ env.openOutput = {} /\ env.micActive = {}

IsPrefix(a, b) == Len(a) <= Len(b) /\ SubSeq(b, 1, Len(a)) = a

\* t is s without its leading and trailing white space
IsTrimOf(t, s) ==
  \/ t = <<>> /\ \A k \in DOMAIN s : s[k] = " "
  \/ \E a, b \in DOMAIN s :
       /\ a <= b /\ s[a] # " " /\ s[b] # " "
       /\ \A k \in DOMAIN s : (k < a \/ k > b) => s[k] = " "
       /\ t = SubSeq(s, a, b)

\* what a server message m must do to the transcript and the accumulators
TurnAssembled(m) ==
  LET cin == live.currentInputTranscription \o m.inputTranscription
      cout == live.currentOutputTranscription \o m.outputTranscription
      added == SubSeq(live'.transcriptions, Len(live.transcriptions) + 1,
                      Len(live'.transcriptions))
      users == SelectSeq(added, LAMBDA t : t.speaker = "user")
      models == SelectSeq(added, LAMBDA t : t.speaker = "model")
  IN /\ IsPrefix(live.transcriptions, live'.transcriptions)
     /\ IF m.turnComplete
        THEN /\ live'.currentInputTranscription = <<>>
             /\ live'.currentOutputTranscription = <<>>
             /\ added = users \o models
             /\ Len(users) <= 1 /\ Len(models) <= 1
             /\ IsTrimOf(IF users = <<>> THEN <<>> ELSE users[1].text, cin)
             /\ IsTrimOf(IF models = <<>> THEN <<>> ELSE models[1].text, cout)
        ELSE /\ added = <<>>
             /\ live'.currentInputTranscription = cin
             /\ live'.currentOutputTranscription = cout

\* C10: each side's text is accumulated separately; a message carrying the
\* turn-completion signal appends the trimmed user text (if any) and then the
\* trimmed model text (if any), text of that same message included, and
\* empties both accumulators; a message without the signal leaves the
\* transcript alone; no step other than a new connect touches the turns
\* already appended, and only messages change transcript or accumulators.
C10_TranscriptAssembly ==
  [][ /\ counters'.msgs # counters.msgs =>
           \A i \in DOMAIN att : \A m \in TextMessages :
              OnMessage(i, m) => TurnAssembled(m)
      /\ \/ IsPrefix(live.transcriptions, live'.transcriptions)
         \/ StartConversation
      /\ counters'.msgs = counters.msgs =>
           /\ live'.currentInputTranscription = live.currentInputTranscription
           /\ live'.currentOutputTranscription = live.currentOutputTranscription
           /\ StartConversation \/ live'.transcriptions = live.transcriptions
    ]_vars

\* a user turn accumulated over two messages and trimmed, followed by the
\* trimmed model turn of the same completion signal
C10_Witness ==
  /\ \E k \in DOMAIN live.transcriptions :
       /\ k + 1 \in DOMAIN live.transcriptions
       /\ live.transcriptions[k] =
            [speaker |-> "user", text |-> <<"a", " ", "a">>]
       /\ live.transcriptions[k + 1] =
            [speaker |-> "model", text |-> <<"b">>]
  /\ live.currentInputTranscription = <<>>
  /\ live.currentOutputTranscription = <<>>

(***************************************************************************)
(* Properties of the text streams.                                         *)
(***************************************************************************)
TextChunksOnly(delivered) == \A j \in DOMAIN delivered : delivered[j].hasText
Texts(delivered) == [ j \in DOMAIN delivered |-> delivered[j].text ]

\* run k of the chat has just applied a chunk or ended without error
ChatStreamStep(k) ==
  /\ chatRuns[k].status = "streaming"
  /\ chatRuns'[k] # chatRuns[k]
  /\ chatRuns'[k].status # "errored"

ChatShowsConcatenation(k) ==
  LET whole == Concat(Texts(chatRuns'[k].delivered))
      Shows(j) == /\ chat'.messages[j].id = ModelId(k)
                  /\ chat'.messages[j].text = whole
  IN /\ chatRuns'[k].fullResponse = whole
     /\ Attached(chatRuns[k]) =>
          \A j \in DOMAIN chat'.messages :
             chat'.messages[j].id = ModelId(k) => Shows(j)
     /\ Attached(chatRuns[k]) /\ ~chat.raced =>
          \E j \in DOMAIN chat'.messages : Shows(j)

\* run k of the script panel has just applied a chunk or ended without error
ScriptStreamStep(k) ==
  /\ scriptRuns[k].status = "streaming"
  /\ scriptRuns'[k] # scriptRuns[k]
  /\ scriptRuns'[k].status # "errored"

ScriptShowsConcatenation(k) ==
  LET whole == Concat(Texts(scriptRuns'[k].delivered))
  IN /\ scriptRuns'[k].content = whole
     /\ scriptRuns'[k].initialScript = scriptRuns[k].initialScript
     /\ Attached(scriptRuns[k]) =>
          IF scriptRuns'[k].status = "streaming"
          THEN script'.generatedScript = scriptRuns[k].initialScript \o whole
          ELSE script'.generatedScript = script.generatedScript

\* a script stream has just been started: a fresh generation starts from the
\* empty script, a continuation from the script on display
ScriptStreamStarts ==
  Len(scriptRuns') > Len(scriptRuns) =>
    LET new == scriptRuns'[Len(scriptRuns')]
    IN /\ new.content = <<>>
       /\ new.initialScript =
            IF new.kind = "continue" THEN script.generatedScript ELSE <<>>
       /\ script'.generatedScript = new.initialScript

C2_NoChunkAppliedAfterLeaving ==
  [][ /\ \A k \in DOMAIN chatRuns :
           ~Attached(chatRuns[k])
             => chatRuns'[k].fullResponse = chatRuns[k].fullResponse
      /\ \A k \in DOMAIN scriptRuns :
           ~Attached(scriptRuns[k])
             => scriptRuns'[k].content = scriptRuns[k].content ]_vars

(***************************************************************************)
(* Properties of the video job.                                            *)
(***************************************************************************)
InWaitLoop(j) == j.phase \in {"waiting", "polling"}

\* C11: the wait loop is left only when a handle reports done or a poll
\* raises an error; no poll is made once a done handle has been observed
\* (the initial handle included); every poll follows one fixed wait; a poll
\* error ends the job in the submit handler at once, with no retry and no
\* further poll.
C11_WaitLoopExits ==
  [][ /\ vjob'.polls # vjob.polls /\ vjob'.id = vjob.id =>
           /\ vjob.phase = "waiting" /\ ~vjob.operation.done
           /\ vjob'.polls = vjob.polls + 1
           /\ vjob'.waits = vjob.waits + 1
      /\ vjob'.phase = "waiting" => ~vjob'.operation.done
      /\ vjob'.polls = vjob'.waits
      /\ InWaitLoop(vjob) /\ ~InWaitLoop(vjob') =>
           \/ vjob'.operation.done /\ vjob'.raised = "none"
           \/ /\ vjob.phase = "polling" /\ vjob'.phase = "failed"
              /\ vjob'.raised # "none"
              /\ vjob'.polls = vjob.polls
              /\ ~video'.isLoading
      /\ vjob.phase \in {"failed", "finished"} =>
           vjob' = vjob \/ vjob'.id = vjob.id + 1 ]_vars

\* the job polled twice, the second poll returned a done handle, and the job
\* finished
C11_Witness ==
  /\ vjob.phase = "finished"
  /\ vjob.polls = 2 /\ vjob.waits = 2
  /\ vjob.operation.done /\ vjob.operation.uri
  /\ video.videoUrl = vjob.id

\* C12: during one job the progress value shown by the panel never
\* decreases.
C12_ProgressNonDecreasing ==
  [][ vjob'.id = vjob.id => video'.progress >= video.progress ]_vars

\* C13: a job whose handle reports done without a result reference ends with
\* the empty-result message, which is none of the four failure messages; the
\* failure path is not taken (no error is raised, the key status is kept),
\* no history entry is added, nothing is displayed and loading ends.
C13_EmptyResultIsDistinct ==
  [][ ( /\ vjob.phase \in {"submitting", "polling"}
        /\ vjob'.phase \notin {"submitting", "polling", "failed"}
        /\ vjob'.operation.done /\ ~vjob'.operation.uri ) =>
        /\ video'.error = EmptyResultText
        /\ video'.error \notin
             { CredentialText, SafetyText, QuotaText, GenericText, "none" }
        /\ vjob'.raised = "none"
        /\ video'.apiKeyStatus = video.apiKeyStatus
        /\ video'.videoHistory = video.videoHistory
        /\ video'.videoUrl = NULL
        /\ ~video'.isLoading
        /\ vjob'.phase = "finished" ]_vars

\* after one poll the handle is done and carries no result reference
C13_Witness ==
  /\ vjob.phase = "finished" /\ vjob.polls = 1
  /\ vjob.operation.done /\ ~vjob.operation.uri
  /\ video.error = EmptyResultText
  /\ ~video.isLoading

(***************************************************************************)
(* Properties of the gateway.                                              *)
(***************************************************************************)
\* C14: transcribeAudio, suggestPrompts and generateTts swallow every failure:
\* a call made without a credential or rejected by the vendor returns the
\* empty string, the empty list and null respectively, no error reaches the
\* caller, and a failed transcription leaves the Transcribe panel with an
\* empty transcription.
C14_FailuresAreSwallowed ==
  /\ (gw.cause # NoError \/ ~gw.apiKey) =>
        /\ gw.fn = "transcribeAudio" => gw.outcome = Returned(String(<< >>))
        /\ gw.fn = "suggestPrompts" => gw.outcome = Returned(Array(<< >>))
        /\ gw.fn = "generateTts" => gw.outcome = Returned(Null)
  /\ trans.settled = "failed" => trans.transcription = << >>

\* C15: a gateway call fails with ApiKeyError exactly when no credential is
\* configured or the vendor reports an authorization or permission failure
\* (status 401 or 403, or a message about the API key or a denied
\* permission); every other failure leaves as a non-credential error.
C15_CredentialErrorExactly ==
  gw.outcome.threw =>
    ( gw.outcome.error.name = "ApiKeyError"
        <=> \/ ~gw.apiKey
            \/ gw.cause.status \in { 401, 403 }
            \/ includes(gw.cause.message, << "API", "key" >>)
            \/ includes(gw.cause.message, << "permission", "denied" >>) )

\* C17: the grounding sources of generateGroundedContent hold exactly one entry
\* per distinct URI of the vendor's web chunks, in the order in which the URIs
\* first appear, each with the title of the first chunk of that URI (the URI
\* itself when that chunk has no title).
C17_SourcesAreDeduplicated ==
  (gw.fn = "generateGroundedContent" /\ ~gw.outcome.threw) =>
    LET webs == SelectSeq(gw.chunks, LAMBDA c : c.web)
        out == gw.outcome.value.sources
        first(u) == CHOOSE i \in DOMAIN webs :
                      /\ webs[i].uri = u
                      /\ \A j \in 1..(i - 1) : webs[j].uri # u
    IN  /\ \A i \in DOMAIN webs :
             Cardinality({ k \in DOMAIN out : out[k].uri = webs[i].uri }) = 1
        /\ \A k \in DOMAIN out : \E i \in DOMAIN webs : webs[i].uri = out[k].uri
        /\ \A k, l \in DOMAIN out :
             k < l => first(out[k].uri) < first(out[l].uri)
        /\ \A k \in DOMAIN out :
             out[k].title = IF webs[first(out[k].uri)].title # ""
                            THEN webs[first(out[k].uri)].title
                            ELSE out[k].uri

\* a reply of three web chunks a, b, a whose two chunks of a differ in title
C17_Witness ==
  /\ gw.fn = "generateGroundedContent" /\ ~gw.outcome.threw
  /\ Len(gw.chunks) = 3
  /\ \A i \in 1..3 : gw.chunks[i].web
  /\ gw.chunks[1].uri = "a" /\ gw.chunks[2].uri = "b" /\ gw.chunks[3].uri = "a"
  /\ gw.chunks[1].title # gw.chunks[3].title
  /\ Len(gw.outcome.value.sources) = 2

(***************************************************************************)
(* Properties of the panels after a failure.                               *)
(***************************************************************************)
\* C16: a failed action leaves the result displayed before it intact: when a
\* video generation has failed, the video that was shown when the generation
\* was requested is still shown.
C16_FailureKeepsShownResult ==
  (vjob.phase = "failed" /\ vjob.shown # NULL) => video.videoUrl = vjob.shown

(***************************************************************************)
(* Properties of the capped histories.                                     *)
(***************************************************************************)
\* C18: a capped history never holds more than 10 entries, and after every
\* save its persisted copy equals the list held in memory.
C18_HistoriesCappedAndPersisted ==
  \A k \in Histories :
     /\ Len(hist[k].memory) <= HistoryCap
     /\ Len(hist[k].stored) <= HistoryCap
     /\ hist[k].stored = hist[k].memory

(***************************************************************************)
(* Properties of the saved conversations.                                  *)
(***************************************************************************)
\* C19: loading a conversation by its identifier puts back the message list
\* that was saved under that identifier (same order, same role, text and
\* attachment of every message), whatever saves, renames and deletes of
\* other conversations came in between: every conversation in the list keeps
\* the messages it was saved with.
C19_SaveLoadRoundTrip ==
  [][ /\ \A id \in 1..(convos.now - 1) :
           LoadConversation(id) => chat'.messages = convos.archive[id]
      /\ \A i \in DOMAIN convos'.saved :
           convos'.saved[i].messages = convos'.archive[convos'.saved[i].id]
    ]_vars

\* the first conversation, with an attachment, is shown again after the chat
\* went on, was saved a second time and that second conversation was deleted
C19_Witness ==
  /\ convos.now = 3
  /\ convos.archive[1] # << >>
  /\ \E h \in DOMAIN convos.archive[1] :
        convos.archive[1][h].imagePreview = "img"
  /\ Len(convos.archive[2]) > Len(convos.archive[1])
  /\ \A i \in DOMAIN convos.saved : convos.saved[i].id # 2
  /\ chat.messages = convos.archive[1]

(***************************************************************************)
(* Properties of the live session while it is set up.                      *)
(***************************************************************************)
\* C20: every setup failure of the latest connection attempt (microphone
\* refused, connection attempt rejected, error reported by the session) is
\* followed by the disconnected state: isConnecting false and isConnected
\* false.
C20_SetupFailureDisconnects ==
  \A i \in 1..MaxConnects :
     ( /\ i = Len(att)
       /\ \/ att[i].phase \in { "failed", "rejected" }
          \/ att[i].closedFrom = "error" )
       ~> (~live.isConnecting /\ ~live.isConnected)

\* C21: a step taken by a read-aloud run after stopReading cancelled it (its
\* pending TTS request, decode or completion timer coming back) schedules no
\* audio chunk and changes neither the reading state nor the refs that the run
\* started since then uses
C21_CancelledRunIsInert ==
  [][ \A k \in DOMAIN reading.runs :
        ( reading.runs[k].cancelled /\ reading'.runs[k] # reading.runs[k] )
        => /\ reading'.runs[k].scheduled = reading.runs[k].scheduled
           /\ reading'.readingState = reading.readingState
           /\ reading'.isStoppingRef = reading.isStoppingRef
           /\ reading'.audioContextRef = reading.audioContextRef
           /\ reading'.audioSourcesRef = reading.audioSourcesRef ]_vars

\* C22: when a script stream fails, the script shown afterwards is the text
\* accumulated before the failure (for a continuation: the script it started
\* from and the chunks appended) followed by a non-empty error marker, for a
\* fresh generation as for a continuation
C22_PartialScriptKeptWithMarker ==
  [][ \A k \in DOMAIN scriptRuns :
        ( /\ scriptRuns[k].status = "streaming"
          /\ scriptRuns'[k].status = "errored"
          /\ Attached(scriptRuns[k]) )
        => LET accumulated ==
                 scriptRuns[k].initialScript \o scriptRuns[k].content
           IN /\ IsPrefix(accumulated, script'.generatedScript)
              /\ Len(script'.generatedScript) > Len(accumulated) ]_vars

\* C23: a generation that fails with a vendor error leaves the panel as the
\* classification of the vendor's message text leaves it (quota, safety,
\* credential with the key marked invalid, or generic), whatever the HTTP
\* status of the error
C23_ClassifiedByVendorMessage ==
  [][ ( vjob.phase # "failed" /\ vjob'.phase = "failed"
        /\ vjob'.vendor # NoError )
      => video' = classify(video, vjob'.vendor) ]_vars

\* C24: whenever a send or a resend hands a request to the vendor, in a
\* streaming mode or in search-grounded mode, the history it hands over is
\* exactly the messages that precede the new user message in the conversation
\* on display (for a regenerate: the messages before the last user message,
\* without the answer being regenerated)
C24_HistoryIsPrecedingMessages ==
  [][ ( Len(chatRuns') > Len(chatRuns)
        /\ chatRuns'[Len(chatRuns')].mount = tab.mount )
      => LET k == Len(chatRuns')
             shown == chat'.messages
         IN \E j \in DOMAIN shown :
               /\ shown[j].id = UserId(k)
               /\ chatRuns'[k].history = SubSeq(shown, 1, j - 1) ]_vars

\* C25: when the live panel is unmounted while connecting or connected, the
\* remote session is asked to close and the session reference is cleared, as
\* stopConversation does
C25_UnmountClosesSession ==
  [][ ( live.mounted /\ ~live'.mounted
        /\ (live.isConnected \/ live.isConnecting) )
      => /\ att' = stopConversation(World).att
         /\ live'.sessionPromiseRef = NULL ]_vars

\* C26: isCameraOn is true exactly when a camera stream with running tracks
\* is held in videoStreamRef, and frames are streamed only while such a
\* stream is held
C26_CameraFlagMatchesStream ==
  /\ live.isCameraOn <=> ( live.videoStreamRef # NULL
                           /\ live.videoStreamRef \in env.camActive )
  /\ live.frameIntervalRef => ( live.videoStreamRef # NULL
                                /\ live.videoStreamRef \in env.camActive )

\* C27: in the chat panel at most one remote request of the mounted panel is
\* in flight at a time, isLoading is true while one is, and a request in
\* flight was made in the mode the panel is in
C27_LoadingCoversSingleRequest ==
  LET inFlight == { k \in DOMAIN chatRuns :
                      /\ chatRuns[k].status \in { "streaming", "awaiting" }
                      /\ Attached(chatRuns[k]) }
  IN /\ Cardinality(inFlight) <= 1
     /\ inFlight # {} => chat.isLoading
     /\ \A k \in inFlight : chatRuns[k].chatMode = chat.chatMode

\* C28: when a generation of the image panel completes, the history becomes
\* the new entry in front of the history as it stands at that moment, capped
\* at ten entries
C28_PrependsToCurrentHistory ==
  [][ ( hist["image"].pending /\ ~hist'["image"].pending
        /\ hist'["image"].nextId > hist["image"].nextId )
      => hist'["image"].memory =
           prepend(hist["image"].nextId, hist["image"].memory) ]_vars

\* C29: whenever the chat panel is not loading, no message on display is
\* marked isStreaming, and no saved conversation holds a streaming message
C29_NoStreamingWhenIdle ==
  /\ ~chat.isLoading =>
        \A j \in DOMAIN chat.messages : ~chat.messages[j].isStreaming
  /\ \A c \in DOMAIN convos.saved :
        \A j \in DOMAIN convos.saved[c].messages :
           ~convos.saved[c].messages[j].isStreaming

\* C30: once a fresh script generation has failed and loading has ended, with
\* the chapters setting as it was and nothing edited, the Generate button is
\* enabled and pressing it starts a fresh generation, not a continuation of
\* the error text
C30_RetryAfterFailure ==
  scriptRuns # <<>> =>
    LET last == scriptRuns[Len(scriptRuns)]
    IN ( /\ last.kind = "generate" /\ last.status = "errored"
         /\ Attached(last)
         /\ ~script.isLoading /\ ~script.isEditing
         /\ script.chapters = last.chapters
         /\ script.generatedScript = ScriptErrorText )
       => SubmitEnabled /\ ~IsContinuation

====
